---- MODULE Spec2Model ----
(***************************************************************************)
(* Model of the Go table-driven-test outline parser                        *)
(* (parser/internal/parser) of vscode-go-tdt-outline.                      *)
(*                                                                         *)
(* A Go source file is a syntax tree of go/ast nodes.  Every node is a     *)
(* record of one shape:                                                    *)
(*   kind  the go/ast node type ("FuncDecl", "CompositeLit", ...; "Nil"    *)
(*         is a nil interface value, e.g. the elided type of {..})         *)
(*   tok   token.Token of a BasicLit ("STRING", "INT"), of a GenDecl       *)
(*         ("var", "const", "type") or of an AssignStmt (":=", "=")        *)
(*   text  the source text of an Ident or BasicLit, a tuple of characters  *)
(*   n     a count: len(Lhs) of an AssignStmt, len(Names) of a Field or    *)
(*         ValueSpec, 1 for a FuncType with Results != nil, 1 for a        *)
(*         composite literal written one element per line                  *)
(*   kids  the child nodes in source order                                 *)
(*   pos, end  the byte offsets node.Pos() and node.End()                  *)
(* Strings are tuples of one-character strings, so that prefixes, case     *)
(* folding and unquoting are computed and not assumed.                     *)
(***************************************************************************)
EXTENDS Integers, Sequences, FiniteSets, TLC

VARIABLES
    filename,       \* Parse's filename argument
    src,            \* Parse's src argument: [syntaxError, file]
    pc,             \* "call" before Parse runs, "returned" after
    symbols,        \* the returned []Symbol
    symbolsIsNil,   \* whether the returned slice is nil
    err,            \* the returned error: "" for nil
    compLit,        \* argument of extractFromCompositeLiteral
    testCases,      \* its result
    caseLit,        \* argument of extractTestName
    structFields,   \* argument of extractTestName
    testName,       \* its result
    fieldNameIn,    \* argument of isTestNameField
    fieldIsName,    \* its result
    content,        \* the string a literal of the source denotes
    basicLit,       \* argument of extractStringLiteral
    unquotedOut,    \* its result: [s, ok]
    stdout,         \* what main wrote to os.Stdout: a sequence of JSON values
    previous,       \* the results of the earlier invocations of Parse
    filePath,       \* ParseFile's filePath argument
    disk,           \* what the file system holds at filePath: [state, src]
    opened,         \* the paths os.Open was called with
    osArgs,         \* os.Args[1:] of the parser command
    stdin,          \* what the command can read from os.Stdin: [syntaxError, file]
    exitCode,       \* the exit status of the command: -1 while it runs
    stderr,         \* what the command wrote to os.Stderr: a sequence of lines
    settings,       \* the user's settings: <<>> where unset, <<n>> where set to n
    config,         \* the provider's ExtensionConfig: [timeout, maxFileSize]
    parserExists,   \* the provider's parserExists field
    document,       \* per request, the TextDocument: [onDisk, text]
    call,           \* per request, where provideDocumentSymbols stands
    answer,         \* per request, the promise provideDocumentSymbols returned
    token,          \* per request, token.isCancellationRequested
    child,          \* per request, the spawned parser process
    timer,          \* per request, the timer of runParser
    promise,        \* per request, the promise of runParser
    buffers,        \* per request, the stdout variable of runParser
    channel         \* the lines appended to the output channel

fieldVars == <<fieldNameIn, fieldIsName>>
literalVars == <<content, basicLit, unquotedOut>>
mainVars == <<stdout, previous>>
fileVars == <<filePath, disk, opened>>
commandVars == <<osArgs, stdin, exitCode, stderr>>
providerVars == <<settings, config, parserExists, document, call, answer, token, child, timer,
                  promise, buffers, channel>>

vars == <<filename, src, pc, symbols, symbolsIsNil, err,
          compLit, testCases, caseLit, structFields, testName,
          fieldNameIn, fieldIsName, content, basicLit, unquotedOut, stdout, previous,
          filePath, disk, opened, osArgs, stdin, exitCode, stderr,
          settings, config, parserExists, document, call, answer, token, child, timer,
          promise, buffers, channel>>

(***************************************************************************)
(* Bounds of the input domains.                                            *)
(***************************************************************************)
MaxDecls == 3
MaxStmts == 2
MaxElts == 3
MaxFields == 3
MaxChars == 3
MaxCalls == 2

(***************************************************************************)
(* Strings.                                                                *)
(***************************************************************************)
RECURSIVE SumSeq(_)
SumSeq(s) == IF s = <<>> THEN 0 ELSE Head(s) + SumSeq(Tail(s))

RECURSIVE Flatten(_)
Flatten(ss) == IF ss = <<>> THEN <<>> ELSE Head(ss) \o Flatten(Tail(ss))

UpperOf ==
    [c \in {"a","b","c","d","e","i","l","m","n","o","p","r","s","t","u","w","x"} |->
        CASE c = "a" -> "A" [] c = "b" -> "B" [] c = "c" -> "C" [] c = "d" -> "D"
          [] c = "e" -> "E" [] c = "i" -> "I" [] c = "l" -> "L" [] c = "m" -> "M"
          [] c = "n" -> "N" [] c = "o" -> "O" [] c = "p" -> "P" [] c = "r" -> "R"
          [] c = "s" -> "S" [] c = "t" -> "T" [] c = "u" -> "U" [] c = "w" -> "W"
          [] c = "x" -> "X"]

\* unicode.ToLower restricted to the letters the model uses
ToLower(c) ==
    IF \E l \in DOMAIN UpperOf : UpperOf[l] = c
    THEN CHOOSE l \in DOMAIN UpperOf : UpperOf[l] = c
    ELSE c

\* strings.EqualFold
EqualFold(s, t) ==
    /\ Len(s) = Len(t)
    /\ \A i \in 1..Len(s) : ToLower(s[i]) = ToLower(t[i])

\* strings.HasPrefix
HasPrefix(s, prefix) ==
    /\ Len(s) >= Len(prefix)
    /\ SubSeq(s, 1, Len(prefix)) = prefix

(***************************************************************************)
(* go/ast nodes.                                                           *)
(***************************************************************************)
Node(kind, tok, text, n, kids) ==
    [kind |-> kind, tok |-> tok, text |-> text, n |-> n, kids |-> kids,
     pos |-> 0, end |-> 0]

Nil == Node("Nil", "", <<>>, 0, <<>>)
Ident(name) == Node("Ident", "", name, 0, <<>>)
BasicLit(tok, value) == Node("BasicLit", tok, value, 0, <<>>)
CompositeLit(type, elts, perLine) == Node("CompositeLit", "", <<>>, perLine, <<type>> \o elts)
KeyValueExpr(key, value) == Node("KeyValueExpr", "", <<>>, 0, <<key, value>>)
UnaryExpr(x) == Node("UnaryExpr", "", <<>>, 0, <<x>>)
SelectorExpr(x, sel) == Node("SelectorExpr", "", <<>>, 0, <<x, sel>>)
BinaryExpr(x, y) == Node("BinaryExpr", "", <<>>, 0, <<x, y>>)
CallExpr(fun, args) == Node("CallExpr", "", <<>>, 0, <<fun>> \o args)
BlockStmt(list) == Node("BlockStmt", "", <<>>, 0, list)
FuncLit(list) == Node("FuncLit", "", <<>>, 0, <<BlockStmt(list)>>)
MapType(key, value) == Node("MapType", "", <<>>, 0, <<key, value>>)
ArrayType(elt) == Node("ArrayType", "", <<>>, 0, <<elt>>)
Field(names, type) == Node("Field", "", <<>>, Len(names), names \o <<type>>)
StructType(fields) == Node("StructType", "", <<>>, 0, fields)
AssignStmt(lhs, tok, rhs) == Node("AssignStmt", tok, <<>>, Len(lhs), lhs \o rhs)
RangeStmt(x, list) == Node("RangeStmt", "", <<>>, 0, <<x, BlockStmt(list)>>)
ValueSpec(names, values) == Node("ValueSpec", "", <<>>, Len(names), names \o values)
GenDecl(tok, specs) == Node("GenDecl", tok, <<>>, 0, specs)
DeclStmt(decl) == Node("DeclStmt", "", <<>>, 0, <<decl>>)
ExprStmt(x) == Node("ExprStmt", "", <<>>, 0, <<x>>)
ReturnStmt(results) == Node("ReturnStmt", "", <<>>, 0, results)
FuncType(hasResults) == Node("FuncType", "", <<>>, IF hasResults THEN 1 ELSE 0, <<>>)
FuncDecl(name, hasResults, hasBody, list) ==
    Node("FuncDecl", "", <<>>, 0,
         <<Ident(name), FuncType(hasResults), IF hasBody THEN BlockStmt(list) ELSE Nil>>)
File(decls) == Node("File", "", <<>>, 0, decls)

\* field accessors, named as the go/ast fields
LitType(lit) == lit.kids[1]
Elts(lit) == Tail(lit.kids)
Key(kv) == kv.kids[1]
Value(kv) == kv.kids[2]
Rhs(assign) == SubSeq(assign.kids, assign.n + 1, Len(assign.kids))
RangeX(range) == range.kids[1]
Specs(genDecl) == genDecl.kids
Values(valueSpec) == SubSeq(valueSpec.kids, valueSpec.n + 1, Len(valueSpec.kids))
FieldNames(field) == SubSeq(field.kids, 1, field.n)
FuncName(funcDecl) == funcDecl.kids[1]
FuncResultsNil(funcDecl) == funcDecl.kids[2].n = 0
FuncBody(funcDecl) == funcDecl.kids[3]

(***************************************************************************)
(* Source layout: what parser.ParseFile records as positions.  The text of *)
(* a node is Pre(n) characters, its children with Sep(n) characters        *)
(* between them, and Post(n) characters; an Ident or BasicLit is its text. *)
(***************************************************************************)
PerLine(n) == n.kind = "CompositeLit" /\ n.n = 1

Pre(n) ==
    CASE n.kind = "File" -> 10          \* "package p" and a newline
      [] n.kind = "FuncDecl" -> 5       \* "func "
      [] n.kind = "FuncType" -> 2       \* "()"
      [] n.kind = "FuncLit" -> 7        \* "func() "
      [] n.kind = "BlockStmt" -> 2      \* "{" and a newline
      [] n.kind = "RangeStmt" -> 10     \* "for range "
      [] n.kind = "GenDecl" -> 4        \* "var "
      [] n.kind = "ReturnStmt" -> 7     \* "return "
      [] n.kind = "UnaryExpr" -> 1      \* "&"
      [] n.kind = "MapType" -> 4        \* "map["
      [] n.kind = "ArrayType" -> 2      \* "[]"
      [] n.kind = "StructType" -> 7     \* "struct{"
      [] OTHER -> 0

\* one character ("{", ",", ":", " ", a newline) between two children;
\* "{" or "," and a newline in a literal written one element per line
Sep(n) == IF PerLine(n) THEN 2 ELSE 1

Post(n) ==
    CASE n.kind = "BlockStmt" -> 2      \* a newline and "}"
      [] n.kind = "CompositeLit" -> IF PerLine(n) THEN 3 ELSE 1  \* "," newline "}", or "}"
      [] n.kind = "CallExpr" -> 1       \* ")"
      [] n.kind = "StructType" -> 1     \* "}"
      [] n.kind = "FuncType" -> 1       \* " "
      [] OTHER -> 0

IsLeaf(n) == n.kind \in {"Ident", "BasicLit"}

RECURSIVE Size(_)
Size(n) ==
    IF n.kind = "Nil" THEN 0
    ELSE IF IsLeaf(n) THEN Len(n.text)
    ELSE Pre(n)
         + SumSeq([i \in 1..Len(n.kids) |-> Size(n.kids[i])])
         + (IF Len(n.kids) > 0 THEN (Len(n.kids) - 1) * Sep(n) ELSE 0)
         + Post(n)

\* offset of the i-th child of a node placed at off
KidOffset(n, off, i) ==
    off + Pre(n) + SumSeq([j \in 1..(i - 1) |-> Size(n.kids[j]) + Sep(n)])

RECURSIVE Place(_, _)
Place(n, off) ==
    [n EXCEPT !.pos = off,
              !.end = off + Size(n),
              !.kids = [i \in 1..Len(n.kids) |-> Place(n.kids[i], KidOffset(n, off, i))]]

\* the children that start a source line of their own
StartsLine(n, i) ==
    \/ n.kind \in {"File", "BlockStmt"}
    \/ PerLine(n) /\ i >= 2

\* the closing brace of a block or of a per-line literal is on its own line
ClosesOnOwnLine(n) ==
    \/ n.kind = "BlockStmt"
    \/ PerLine(n)

\* token.File.lines: the offsets at which a line starts
RECURSIVE LineStarts(_)
LineStarts(n) ==
    {n.kids[i].pos : i \in {j \in 1..Len(n.kids) : StartsLine(n, j)}}
    \cup (IF ClosesOnOwnLine(n) THEN {n.end - 1} ELSE {})
    \cup UNION {LineStarts(n.kids[i]) : i \in 1..Len(n.kids)}

\* token.NewFileSet with the file added by parser.ParseFile
NewFileSet(file) == {0} \cup LineStarts(file)

\* fset.Position(p): 1-based line and column of an offset
Position(fset, p) ==
    LET before == {l \in fset : l <= p}
        start == CHOOSE l \in before : \A m \in before : m <= l
    IN [Line |-> Cardinality(before), Column |-> p - start + 1]

(***************************************************************************)
(* Symbols and ranges.                                                     *)
(***************************************************************************)
SymbolKindFunction == 11
SymbolKindStruct == 22

\* toRange without the conversion to 0-based lines and characters
toRangeOneBased(start, end) ==
    [start |-> [line |-> start.Line, character |-> start.Column],
     end |-> [line |-> end.Line, character |-> end.Column]]

\* toRange: 1-based token positions to a 0-based range
toRange(start, end) ==
    [start |-> [line |-> start.Line - 1, character |-> start.Column - 1],
     end |-> [line |-> end.Line - 1, character |-> end.Column - 1]]

\* createTestCaseSymbol classifying the case like a function
createTestCaseSymbolAsFunction(name, node, fset) ==
    [name |-> name,
     detail |-> "test function",
     kind |-> SymbolKindFunction,
     range |-> toRange(Position(fset, node.pos), Position(fset, node.end)),
     children |-> <<>>,
     childrenIsNil |-> TRUE]

\* createTestCaseSymbol: Children is left unset, a nil slice
createTestCaseSymbol(name, node, fset) ==
    [name |-> name,
     detail |-> "test case",
     kind |-> SymbolKindStruct,
     range |-> toRange(Position(fset, node.pos), Position(fset, node.end)),
     children |-> <<>>,
     childrenIsNil |-> TRUE]

(***************************************************************************)
(* String literals.                                                        *)
(***************************************************************************)
\* the characters " and U+0060 (a TLA+ string cannot hold the latter)
DQuote == "\""
BQuote == "BACKQUOTE"

\* the escapes of an interpreted string literal that the model's texts use
RECURSIVE UnquoteInterpreted(_)
UnquoteInterpreted(s) ==
    IF s = <<>> THEN [s |-> <<>>, ok |-> TRUE]
    ELSE IF Head(s) = "\\"
    THEN IF Len(s) < 2 \/ s[2] \notin {"n", "t", "\"", "\\"}
         THEN [s |-> <<>>, ok |-> FALSE]
         ELSE LET rest == UnquoteInterpreted(SubSeq(s, 3, Len(s)))
                  c == CASE s[2] = "n" -> "\n"
                         [] s[2] = "t" -> "\t"
                         [] s[2] = "\"" -> "\""
                         [] OTHER -> "\\"
              IN [s |-> <<c>> \o rest.s, ok |-> rest.ok]
    ELSE IF Head(s) \in {"\"", "\n"}
    THEN [s |-> <<>>, ok |-> FALSE]
    ELSE LET rest == UnquoteInterpreted(Tail(s))
         IN [s |-> <<Head(s)>> \o rest.s, ok |-> rest.ok]

\* strconv.Unquote of the source text of a literal
Unquote(lit) ==
    IF Len(lit) < 2 \/ lit[1] # lit[Len(lit)] \/ lit[1] \notin {DQuote, BQuote}
    THEN [s |-> <<>>, ok |-> FALSE]
    ELSE LET body == SubSeq(lit, 2, Len(lit) - 1)
         IN IF lit[1] = BQuote
            THEN IF \E i \in 1..Len(body) : body[i] = BQuote
                 THEN [s |-> <<>>, ok |-> FALSE]
                 ELSE [s |-> body, ok |-> TRUE]
            ELSE UnquoteInterpreted(body)

\* strings.Trim(s, "\""): s without its leading and trailing double quotes
RECURSIVE TrimQuotes(_)
TrimQuotes(s) ==
    IF s = <<>> THEN <<>>
    ELSE IF Head(s) = DQuote THEN TrimQuotes(Tail(s))
    ELSE IF s[Len(s)] = DQuote THEN TrimQuotes(SubSeq(s, 1, Len(s) - 1))
    ELSE s

\* extractStringLiteral that strips the quotes with strings.Trim instead of
\* decoding the literal with strconv.Unquote
extractStringLiteralTrim(expr) ==
    IF expr.kind # "BasicLit" \/ expr.tok # "STRING"
    THEN [s |-> <<>>, ok |-> FALSE]
    ELSE [s |-> TrimQuotes(expr.text), ok |-> TRUE]

extractStringLiteral(expr) ==
    IF expr.kind # "BasicLit" \/ expr.tok # "STRING"
    THEN [s |-> <<>>, ok |-> FALSE]
    ELSE LET unquoted == Unquote(expr.text)
         IN IF ~unquoted.ok
            THEN [s |-> <<>>, ok |-> FALSE]
            ELSE [s |-> unquoted.s, ok |-> TRUE]

(***************************************************************************)
(* Test case names.                                                        *)
(***************************************************************************)
testNameFields ==
    << <<"n","a","m","e">>,
       <<"t","e","s","t","N","a","m","e">>,
       <<"d","e","s","c">>,
       <<"d","e","s","c","r","i","p","t","i","o","n">>,
       <<"t","i","t","l","e">>,
       <<"s","c","e","n","a","r","i","o">> >>

\* isTestNameField comparing with == instead of strings.EqualFold
isTestNameFieldExact(fieldName) ==
    \E i \in 1..Len(testNameFields) : fieldName = testNameFields[i]

isTestNameField(fieldName) ==
    \E i \in 1..Len(testNameFields) : EqualFold(fieldName, testNameFields[i])

RECURSIVE extractStructFields(_)
extractStructFields(typeExpr) ==
    IF typeExpr.kind = "Nil" THEN <<>>
    ELSE IF typeExpr.kind = "ArrayType" THEN extractStructFields(typeExpr.kids[1])
    ELSE IF typeExpr.kind = "StructType" THEN typeExpr.kids
    ELSE <<>>

\* extractTestNameFromPositional that, without a field list, takes the first
\* element that is a string literal
RECURSIVE firstStringFrom(_, _)
firstStringFrom(elts, k) ==
    IF k > Len(elts) THEN <<>>
    ELSE IF extractStringLiteral(elts[k]).ok THEN extractStringLiteral(elts[k]).s
    ELSE firstStringFrom(elts, k + 1)

extractTestNameFromPositionalGuess(lit, fields) == firstStringFrom(Elts(lit), 1)

\* the loop of extractTestNameFromPositional from field index i (1-based) on
RECURSIVE positionalFrom(_, _, _)
positionalFrom(lit, fields, i) ==
    IF i > Len(fields) THEN <<>>
    ELSE LET field == fields[i]
             lit_i == extractStringLiteral(Elts(lit)[i])
         IN IF field.n = 0 THEN positionalFrom(lit, fields, i + 1)
            ELSE IF ~isTestNameField(FieldNames(field)[1].text)
            THEN positionalFrom(lit, fields, i + 1)
            ELSE IF i - 1 >= Len(Elts(lit)) THEN positionalFrom(lit, fields, i + 1)
            ELSE IF ~lit_i.ok THEN positionalFrom(lit, fields, i + 1)
            ELSE lit_i.s

extractTestNameFromPositional(lit, fields) == positionalFrom(lit, fields, 1)

\* the key-value loop of extractTestName from element k on:
\* [found, s] is the return taken inside the loop, if any
\* the key-value loop with the last match winning instead of the first
RECURSIVE keyValueFromLast(_, _)
keyValueFromLast(elts, k) ==
    IF k > Len(elts) THEN [found |-> FALSE, s |-> <<>>]
    ELSE LET kv == elts[k]
             later == keyValueFromLast(elts, k + 1)
         IN IF later.found THEN later
            ELSE IF kv.kind # "KeyValueExpr" THEN later
            ELSE IF Key(kv).kind # "Ident" THEN later
            ELSE IF ~isTestNameField(Key(kv).text) THEN later
            ELSE IF ~extractStringLiteral(Value(kv)).ok THEN later
            ELSE [found |-> TRUE, s |-> extractStringLiteral(Value(kv)).s]

RECURSIVE keyValueFrom(_, _)
keyValueFrom(elts, k) ==
    IF k > Len(elts) THEN [found |-> FALSE, s |-> <<>>]
    ELSE LET kv == elts[k]
         IN IF kv.kind # "KeyValueExpr" THEN keyValueFrom(elts, k + 1)
            ELSE IF Key(kv).kind # "Ident" THEN keyValueFrom(elts, k + 1)
            ELSE IF ~isTestNameField(Key(kv).text) THEN keyValueFrom(elts, k + 1)
            ELSE IF ~extractStringLiteral(Value(kv)).ok THEN keyValueFrom(elts, k + 1)
            ELSE [found |-> TRUE, s |-> extractStringLiteral(Value(kv)).s]

extractTestName(lit, fields) ==
    LET kv == keyValueFrom(Elts(lit), 1)
    IN IF kv.found THEN kv.s ELSE extractTestNameFromPositional(lit, fields)

(***************************************************************************)
(* Test tables.                                                            *)
(***************************************************************************)
\* extractTestCasesFromSlice that also takes the literal under a & for a case
extractTestCasesFromSliceAddressOf(lit, fset) ==
    LET fields == extractStructFields(LitType(lit))
        elts == Elts(lit)
        Under(e) == IF e.kind = "UnaryExpr" THEN e.kids[1] ELSE e
    IN Flatten([i \in 1..Len(elts) |->
            IF Under(elts[i]).kind # "CompositeLit" THEN <<>>
            ELSE IF extractTestName(Under(elts[i]), fields) = <<>> THEN <<>>
            ELSE <<createTestCaseSymbol(extractTestName(Under(elts[i]), fields),
                                        Under(elts[i]), fset)>>])

\* extractTestCasesFromMap that returns at the first key that is not a
\* string literal
RECURSIVE mapEntriesUntilOtherKey(_, _, _)
mapEntriesUntilOtherKey(elts, i, fset) ==
    IF i > Len(elts) THEN <<>>
    ELSE IF elts[i].kind # "KeyValueExpr" THEN mapEntriesUntilOtherKey(elts, i + 1, fset)
    ELSE IF ~extractStringLiteral(Key(elts[i])).ok THEN <<>>
    ELSE <<createTestCaseSymbol(extractStringLiteral(Key(elts[i])).s, elts[i], fset)>>
         \o mapEntriesUntilOtherKey(elts, i + 1, fset)

extractTestCasesFromMapAbort(lit, fset) == mapEntriesUntilOtherKey(Elts(lit), 1, fset)

extractTestCasesFromSlice(lit, fset) ==
    LET fields == extractStructFields(LitType(lit))
        elts == Elts(lit)
    IN Flatten([i \in 1..Len(elts) |->
            IF elts[i].kind # "CompositeLit" THEN <<>>
            ELSE IF extractTestName(elts[i], fields) = <<>> THEN <<>>
            ELSE <<createTestCaseSymbol(extractTestName(elts[i], fields), elts[i], fset)>>])

extractTestCasesFromMap(lit, fset) ==
    LET elts == Elts(lit)
    IN Flatten([i \in 1..Len(elts) |->
            IF elts[i].kind # "KeyValueExpr" THEN <<>>
            ELSE IF ~extractStringLiteral(Key(elts[i])).ok THEN <<>>
            ELSE <<createTestCaseSymbol(extractStringLiteral(Key(elts[i])).s, elts[i], fset)>>])

extractFromCompositeLiteral(lit, fset) ==
    IF LitType(lit).kind = "MapType"
    THEN extractTestCasesFromMap(lit, fset)
    ELSE extractTestCasesFromSlice(lit, fset)

\* ast.Inspect with a callback that always returns true: the nodes in
\* depth-first order, nil children left out
RECURSIVE PreOrder(_)
PreOrder(n) ==
    IF n.kind = "Nil" THEN <<>>
    ELSE <<n>> \o Flatten([i \in 1..Len(n.kids) |-> PreOrder(n.kids[i])])

\* a callback that matches the specification of a variable as well as the
\* declaration statement that holds it
extractTestCasesVisitSpecToo(node, fset) ==
    IF node.kind = "AssignStmt"
    THEN IF Len(Rhs(node)) = 1 /\ Rhs(node)[1].kind = "CompositeLit"
         THEN extractFromCompositeLiteral(Rhs(node)[1], fset)
         ELSE <<>>
    ELSE IF node.kind = "RangeStmt"
    THEN IF RangeX(node).kind = "CompositeLit"
         THEN extractFromCompositeLiteral(RangeX(node), fset)
         ELSE <<>>
    ELSE IF node.kind = "DeclStmt"
    THEN LET genDecl == node.kids[1]
         IN IF genDecl.kind = "GenDecl" /\ genDecl.tok = "var"
            THEN Flatten([i \in 1..Len(Specs(genDecl)) |->
                    LET valueSpec == Specs(genDecl)[i]
                    IN IF /\ valueSpec.kind = "ValueSpec"
                          /\ Len(Values(valueSpec)) = 1
                          /\ Values(valueSpec)[1].kind = "CompositeLit"
                       THEN extractFromCompositeLiteral(Values(valueSpec)[1], fset)
                       ELSE <<>>])
            ELSE <<>>
    ELSE IF node.kind = "ValueSpec"
    THEN IF Len(Values(node)) = 1 /\ Values(node)[1].kind = "CompositeLit"
         THEN extractFromCompositeLiteral(Values(node)[1], fset)
         ELSE <<>>
    ELSE <<>>

\* the callback of extractTestCases: what one visited node appends
extractTestCasesVisit(node, fset) ==
    IF node.kind = "AssignStmt"
    THEN IF Len(Rhs(node)) = 1 /\ Rhs(node)[1].kind = "CompositeLit"
         THEN extractFromCompositeLiteral(Rhs(node)[1], fset)
         ELSE <<>>
    ELSE IF node.kind = "RangeStmt"
    THEN IF RangeX(node).kind = "CompositeLit"
         THEN extractFromCompositeLiteral(RangeX(node), fset)
         ELSE <<>>
    ELSE IF node.kind = "DeclStmt"
    THEN LET genDecl == node.kids[1]
         IN IF genDecl.kind = "GenDecl" /\ genDecl.tok = "var"
            THEN Flatten([i \in 1..Len(Specs(genDecl)) |->
                    LET valueSpec == Specs(genDecl)[i]
                    IN IF /\ valueSpec.kind = "ValueSpec"
                          /\ Len(Values(valueSpec)) = 1
                          /\ Values(valueSpec)[1].kind = "CompositeLit"
                       THEN extractFromCompositeLiteral(Values(valueSpec)[1], fset)
                       ELSE <<>>])
            ELSE <<>>
    ELSE <<>>

\* extractTestCases with a walker that takes every composite literal it
\* visits for a table
extractTestCasesEveryLiteral(body, fset) ==
    LET visited == PreOrder(body)
    IN Flatten([i \in 1..Len(visited) |->
            IF visited[i].kind = "CompositeLit"
            THEN extractFromCompositeLiteral(visited[i], fset)
            ELSE <<>>])

extractTestCases(body, fset) ==
    LET visited == PreOrder(body)
    IN Flatten([i \in 1..Len(visited) |-> extractTestCasesVisit(visited[i], fset)])

(***************************************************************************)
(* Test functions.                                                         *)
(***************************************************************************)
Test == <<"T","e","s","t">>

\* extractTestFunction without the check of funcDecl.Type.Results
extractTestFunctionAnyResults(n, fset) ==
    IF n.kind # "FuncDecl" THEN <<>>
    ELSE IF ~HasPrefix(FuncName(n).text, Test) THEN <<>>
    ELSE IF FuncBody(n).kind = "Nil" THEN <<>>
    ELSE LET cases == extractTestCases(FuncBody(n), fset)
         IN IF Len(cases) = 0 THEN <<>>
            ELSE <<[name |-> FuncName(n).text,
                    detail |-> "test function",
                    kind |-> SymbolKindFunction,
                    range |-> toRange(Position(fset, n.pos), Position(fset, n.end)),
                    children |-> cases,
                    childrenIsNil |-> FALSE]>>

\* extractTestFunction without the check of len(testCases)
extractTestFunctionAnyCases(n, fset) ==
    IF n.kind # "FuncDecl" THEN <<>>
    ELSE IF ~HasPrefix(FuncName(n).text, Test) \/ ~FuncResultsNil(n) THEN <<>>
    ELSE IF FuncBody(n).kind = "Nil" THEN <<>>
    ELSE LET cases == extractTestCases(FuncBody(n), fset)
         IN <<[name |-> FuncName(n).text,
               detail |-> "test function",
               kind |-> SymbolKindFunction,
               range |-> toRange(Position(fset, n.pos), Position(fset, n.end)),
               children |-> cases,
               childrenIsNil |-> FALSE]>>

\* extractTestFunction: <<>> for nil, <<symbol>> for a *Symbol
\* extractTestFunction with the range of the function's name instead of the
\* range of the whole declaration
extractTestFunctionNameRange(n, fset) ==
    IF n.kind # "FuncDecl" THEN <<>>
    ELSE IF ~HasPrefix(FuncName(n).text, Test) \/ ~FuncResultsNil(n) THEN <<>>
    ELSE IF FuncBody(n).kind = "Nil" THEN <<>>
    ELSE LET cases == extractTestCases(FuncBody(n), fset)
         IN IF Len(cases) = 0 THEN <<>>
            ELSE <<[name |-> FuncName(n).text,
                    detail |-> "test function",
                    kind |-> SymbolKindFunction,
                    range |-> toRange(Position(fset, FuncName(n).pos),
                                      Position(fset, FuncName(n).end)),
                    children |-> cases,
                    childrenIsNil |-> FALSE]>>

extractTestFunction(n, fset) ==
    IF n.kind # "FuncDecl" THEN <<>>
    ELSE IF ~HasPrefix(FuncName(n).text, Test) \/ ~FuncResultsNil(n) THEN <<>>
    ELSE IF FuncBody(n).kind = "Nil" THEN <<>>
    ELSE LET cases == extractTestCases(FuncBody(n), fset)
         IN IF Len(cases) = 0 THEN <<>>
            ELSE <<[name |-> FuncName(n).text,
                    detail |-> "test function",
                    kind |-> SymbolKindFunction,
                    range |-> toRange(Position(fset, n.pos), Position(fset, n.end)),
                    children |-> cases,
                    childrenIsNil |-> FALSE]>>

\* the ast.Inspect of Parse with the declarations walked last to first
RECURSIVE inspectFileBackwards(_, _)
inspectFileBackwards(n, fset) ==
    IF n.kind = "Nil" THEN <<>>
    ELSE LET symbol == extractTestFunction(n, fset)
         IN IF symbol # <<>> THEN symbol
            ELSE Flatten([i \in 1..Len(n.kids) |->
                    inspectFileBackwards(n.kids[Len(n.kids) + 1 - i], fset)])

\* the ast.Inspect of Parse: a node that yields a symbol is not entered
RECURSIVE inspectFile(_, _)
inspectFile(n, fset) ==
    IF n.kind = "Nil" THEN <<>>
    ELSE LET symbol == extractTestFunction(n, fset)
         IN IF symbol # <<>> THEN symbol
            ELSE Flatten([i \in 1..Len(n.kids) |-> inspectFile(n.kids[i], fset)])

\* parser.ParseFile(fset, filename, src, 0): the tree with its positions
parserParseFile(source) == Place(source.file, 0)

(***************************************************************************)
(* Operations.                                                             *)
(***************************************************************************)
\* Parse appending to a slice that outlives the call instead of starting
\* from symbols := []Symbol{}
ParseKeepingSymbols ==
    /\ pc = "call"
    /\ pc' = "returned"
    /\ IF filename = ""
       THEN /\ symbols' = <<>>
            /\ symbolsIsNil' = TRUE
            /\ err' = "filename cannot be empty"
       ELSE IF src.syntaxError
       THEN /\ symbols' = <<>>
            /\ symbolsIsNil' = TRUE
            /\ err' = "failed to parse Go file"
       ELSE LET node == parserParseFile(src)
                fset == NewFileSet(node)
            IN /\ symbols' = symbols \o inspectFile(node, fset)
               /\ symbolsIsNil' = FALSE
               /\ err' = ""
    /\ UNCHANGED <<filename, src, compLit, testCases, caseLit, structFields, testName,
                   fieldVars, literalVars, mainVars,
                   fileVars, commandVars, providerVars>>

\* Parse returning an empty, non-nil slice together with an error
ParseEmptyOnError ==
    /\ pc = "call"
    /\ pc' = "returned"
    /\ IF filename = ""
       THEN /\ symbols' = <<>>
            /\ symbolsIsNil' = FALSE
            /\ err' = "filename cannot be empty"
       ELSE IF src.syntaxError
       THEN /\ symbols' = <<>>
            /\ symbolsIsNil' = FALSE
            /\ err' = "failed to parse Go file"
       ELSE LET node == parserParseFile(src)
                fset == NewFileSet(node)
            IN /\ symbols' = inspectFile(node, fset)
               /\ symbolsIsNil' = FALSE
               /\ err' = ""
    /\ UNCHANGED <<filename, src, compLit, testCases, caseLit, structFields, testName,
                   fieldVars, literalVars, mainVars,
                   fileVars, commandVars, providerVars>>

\* Parse(filename, src)
Parse ==
    /\ pc = "call"
    /\ pc' = "returned"
    /\ IF filename = ""
       THEN /\ symbols' = <<>>
            /\ symbolsIsNil' = TRUE
            /\ err' = "filename cannot be empty"
       ELSE IF src.syntaxError
       THEN /\ symbols' = <<>>
            /\ symbolsIsNil' = TRUE
            /\ err' = "failed to parse Go file"
       ELSE LET node == parserParseFile(src)
                fset == NewFileSet(node)
            IN /\ symbols' = inspectFile(node, fset)
               /\ symbolsIsNil' = FALSE
               /\ err' = ""
    /\ UNCHANGED <<filename, src, compLit, testCases, caseLit, structFields, testName,
                   fieldVars, literalVars, mainVars,
                   fileVars, commandVars, providerVars>>

(***************************************************************************)
(* Input domains: the Go sources the operations are run on.                *)
(***************************************************************************)
Str(body) == BasicLit("STRING", <<DQuote>> \o body \o <<DQuote>>)
RawStr(body) == BasicLit("STRING", <<BQuote>> \o body \o <<BQuote>>)
IntLit == BasicLit("INT", <<"1">>)

name_ == <<"n","a","m","e">>
Name_ == <<"N","a","m","e">>
desc_ == <<"d","e","s","c">>
DESC_ == <<"D","E","S","C">>
input_ == <<"i","n","p","u","t">>
want_ == <<"w","a","n","t">>
tests_ == <<"t","e","s","t","s">>
string_ == <<"s","t","r","i","n","g">>
int_ == <<"i","n","t">>
any_ == <<"a","n","y">>
T_ == <<"T">>
run_ == <<"r","u","n">>

\* struct{ <names[1]> string; <names[2]> string; ... }
StructOf(names) == StructType([i \in 1..Len(names) |-> Field(<<Ident(names[i])>>, Ident(string_))])

\* {<key>: "<value>"}
NamedCase(key, value) == CompositeLit(Nil, <<KeyValueExpr(Ident(key), Str(value))>>, 0)

\* {input: 1}
UnnamedCase == CompositeLit(Nil, <<KeyValueExpr(Ident(input_), IntLit)>>, 0)

\* tests := <lit>
Define(lit) == AssignStmt(<<Ident(tests_)>>, ":=", <<lit>>)

\* []struct{name string}{ {name: "a"}, {name: "b"} }, one element per line
SliceTable ==
    CompositeLit(ArrayType(StructOf(<<name_>>)),
                 <<NamedCase(name_, <<"a">>), NamedCase(name_, <<"b">>)>>, 1)

\* map[string]int{"m": 1}
MapTable ==
    CompositeLit(MapType(Ident(string_), Ident(int_)),
                 <<KeyValueExpr(Str(<<"m">>), IntLit)>>, 1)

\* []struct{input string}{ {input: 1}, {input: 1} }
UnnamedTable ==
    CompositeLit(ArrayType(StructOf(<<input_>>)), <<UnnamedCase, UnnamedCase>>, 1)

\* run()
PlainCall == ExprStmt(CallExpr(Ident(run_), <<>>))

TestA == <<"T","e","s","t","A">>
testA == <<"t","e","s","t","A">>
TestOnly == <<"T","e","s","t">>
BenchmarkA == <<"B","e","n","c","h","m","a","r","k","A">>

\* the top-level declarations of a file
FileDecls ==
    { FuncDecl(TestA, FALSE, TRUE, <<Define(SliceTable)>>),
      FuncDecl(TestA, FALSE, TRUE, <<Define(UnnamedTable)>>),
      FuncDecl(TestA, FALSE, TRUE, <<PlainCall>>),
      FuncDecl(TestA, TRUE, TRUE, <<Define(SliceTable)>>),
      FuncDecl(TestA, FALSE, FALSE, <<>>),
      FuncDecl(testA, FALSE, TRUE, <<Define(SliceTable)>>),
      FuncDecl(BenchmarkA, FALSE, TRUE, <<Define(SliceTable)>>),
      FuncDecl(TestOnly, FALSE, TRUE, <<PlainCall, Define(MapTable)>>),
      GenDecl("var", <<ValueSpec(<<Ident(tests_)>>, <<SliceTable>>)>>) }

SeqsUpTo(S, n) == UNION {[1..k -> S] : k \in 0..n}

Files == {File(decls) : decls \in SeqsUpTo(FileDecls, MaxDecls)}

\* the arguments of Parse: a name and a source text that parses to a file,
\* or one that does not parse, or an empty name
ParseInputs ==
    {<<"a_test.go", [syntaxError |-> FALSE, file |-> f]>> : f \in Files}
    \cup {<<"a_test.go", [syntaxError |-> TRUE, file |-> File(<<>>)]>>}
    \cup {<<"", [syntaxError |-> e, file |-> File(<<d>>)]>> : e \in BOOLEAN, d \in FileDecls}

NoCall ==
    /\ compLit = Nil
    /\ testCases = <<>>
    /\ caseLit = Nil
    /\ structFields = <<>>
    /\ testName = <<>>

\* isTestNameField is not called on its own
NoField ==
    /\ fieldNameIn = <<>>
    /\ fieldIsName = FALSE

\* extractStringLiteral is not called on its own
NoLiteral ==
    /\ content = <<>>
    /\ basicLit = Nil
    /\ unquotedOut = [s |-> <<>>, ok |-> FALSE]

\* nothing written, no earlier invocation
NoOutput ==
    /\ stdout = <<>>
    /\ previous = <<>>

\* a source text that parses to a file without declarations
EmptySource == [syntaxError |-> FALSE, file |-> File(<<>>)]

\* ParseFile is not called
NoFile ==
    /\ filePath = <<>>
    /\ disk = [state |-> "missing", src |-> EmptySource]
    /\ opened = <<>>

\* the command is not run
NoCommand ==
    /\ osArgs = <<>>
    /\ stdin = EmptySource
    /\ exitCode = -1
    /\ stderr = <<>>

\* the fallbacks of loadConfiguration
DefaultTimeout == 10000
DefaultMaxFileSize == 1048576

\* loadConfiguration: a setting is <<>> when the user has not set it, <<n>>
\* when it is set to n
loadConfiguration(section) ==
    [timeout |-> IF section.timeout = <<>> THEN DefaultTimeout
                 ELSE section.timeout[1],
     maxFileSize |-> IF section.maxFileSize = <<>> THEN DefaultMaxFileSize
                     ELSE section.maxFileSize[1]]

\* no request for document symbols is made
NoProvider ==
    /\ settings = [timeout |-> <<>>, maxFileSize |-> <<>>]
    /\ config = loadConfiguration(settings)
    /\ parserExists = TRUE
    /\ document = <<>>
    /\ call = <<>>
    /\ answer = <<>>
    /\ token = <<>>
    /\ child = <<>>
    /\ timer = <<>>
    /\ promise = <<>>
    /\ buffers = <<>>
    /\ channel = <<>>

Init ==
    /\ \E in \in ParseInputs : filename = in[1] /\ src = in[2]
    /\ pc = "call"
    /\ NoField
    /\ NoLiteral
    /\ NoOutput
    /\ NoFile
    /\ NoCommand
    /\ NoProvider
    /\ symbols = <<>>
    /\ symbolsIsNil = TRUE
    /\ err = ""
    /\ NoCall

Next == Parse

Spec == Init /\ [][Next]_vars

(***************************************************************************)
(* Function bodies: one test function whose body binds tables in the       *)
(* statement forms and expression positions of Go.                         *)
(***************************************************************************)
x_ == <<"x">>
fn_ == <<"f","n">>
Want_ == <<"W","a","n","t">>

\* map[any]int{"k": 1}
AnyMapTable ==
    CompositeLit(MapType(Ident(any_), Ident(int_)),
                 <<KeyValueExpr(Str(<<"k">>), IntLit)>>, 1)

\* []struct{name, want string}{ {name: "a", want: []Want{{Name: "n"}}} }
NestedWantTable ==
    CompositeLit(ArrayType(StructOf(<<name_, want_>>)),
        <<CompositeLit(Nil,
            <<KeyValueExpr(Ident(name_), Str(<<"a">>)),
              KeyValueExpr(Ident(want_),
                  CompositeLit(ArrayType(Ident(Want_)), <<NamedCase(Name_, <<"n">>)>>, 0))>>,
            0)>>, 1)

\* []struct{name, fn string}{ {name: "a", fn: func() { tests := []T{{name: "x"}} }},
\*                            {name: "b"} }
ClosureTable ==
    CompositeLit(ArrayType(StructOf(<<name_, fn_>>)),
        <<CompositeLit(Nil,
            <<KeyValueExpr(Ident(name_), Str(<<"a">>)),
              KeyValueExpr(Ident(fn_),
                  FuncLit(<<Define(CompositeLit(ArrayType(Ident(T_)),
                                                <<NamedCase(name_, <<"x">>)>>, 0))>>))>>,
            0),
          NamedCase(name_, <<"b">>)>>, 1)

\* tests, x := <lit1>, <lit2>
Define2(lit1, lit2) == AssignStmt(<<Ident(tests_), Ident(x_)>>, ":=", <<lit1, lit2>>)
\* var tests = <lit>
VarDecl(lit) == DeclStmt(GenDecl("var", <<ValueSpec(<<Ident(tests_)>>, <<lit>>)>>))
\* for range <lit> { }
RangeOver(lit) == RangeStmt(lit, <<>>)
\* run(<lit>)
CallWith(lit) == ExprStmt(CallExpr(Ident(run_), <<lit>>))
\* return <lit>
Return(lit) == ReturnStmt(<<lit>>)
\* run(func() { <stmt> })
InClosure(stmt) == ExprStmt(CallExpr(Ident(run_), <<FuncLit(<<stmt>>)>>))
\* for range tests { <stmt> }
InLoop(stmt) == RangeStmt(Ident(tests_), <<stmt>>)

BodyStmts ==
    {Define(t) : t \in {SliceTable, MapTable, AnyMapTable, NestedWantTable, ClosureTable}}
    \cup {VarDecl(t) : t \in {SliceTable, MapTable}}
    \cup {RangeOver(t) : t \in {SliceTable, MapTable}}
    \cup {CallWith(t) : t \in {SliceTable, MapTable}}
    \cup {Return(SliceTable), Define2(SliceTable, MapTable),
          InClosure(Define(SliceTable)), InLoop(VarDecl(MapTable)), PlainCall}

Bodies == SeqsUpTo(BodyStmts, MaxStmts)

InitBody ==
    /\ filename = "a_test.go"
    /\ \E b \in Bodies :
          src = [syntaxError |-> FALSE, file |-> File(<<FuncDecl(TestA, FALSE, TRUE, b)>>)]
    /\ pc = "call"
    /\ NoField
    /\ NoLiteral
    /\ NoOutput
    /\ NoFile
    /\ NoCommand
    /\ NoProvider
    /\ symbols = <<>>
    /\ symbolsIsNil = TRUE
    /\ err = ""
    /\ NoCall

SpecBody == InitBody /\ [][Next]_vars

(***************************************************************************)
(* Table literals, as extractFromCompositeLiteral receives them.           *)
(***************************************************************************)
SliceTypes ==
    { ArrayType(StructOf(<<name_, input_>>)),   \* []struct{name, input string}
      ArrayType(Ident(T_)),                     \* []T
      ArrayType(SelectorExpr(Ident(x_), Ident(T_))),   \* []x.T
      Ident(T_) }                               \* T, an alias of a slice type

SliceElts ==
    { NamedCase(name_, <<"a">>),                              \* {name: "a"}
      NamedCase(DESC_, <<"b">>),                              \* {DESC: "b"}
      UnnamedCase,                                            \* {input: 1}
      NamedCase(name_, <<>>),                                 \* {name: ""}
      Ident(x_),                                              \* x
      UnaryExpr(CompositeLit(Ident(T_),
                    <<KeyValueExpr(Ident(name_), Str(<<"u">>))>>, 0)),  \* &T{name: "u"}
      KeyValueExpr(IntLit, NamedCase(name_, <<"i">>)),        \* 1: {name: "i"}
      CompositeLit(Nil, <<Str(<<"p">>), IntLit>>, 0) }        \* {"p", 1}

MapTypes ==
    { MapType(Ident(string_), Ident(int_)),     \* map[string]int
      MapType(Ident(any_), Ident(T_)) }         \* map[any]T

MapElts ==
    { KeyValueExpr(Str(<<"m">>), IntLit),                             \* "m": 1
      KeyValueExpr(RawStr(<<"r">>), NamedCase(name_, <<"a">>)),       \* raw "r": {name: "a"}
      KeyValueExpr(Str(<<>>), IntLit),                                \* "": 1
      KeyValueExpr(Ident(x_), IntLit),                                \* x: 1
      KeyValueExpr(BinaryExpr(Str(<<"a">>), Str(<<"b">>)), IntLit),   \* "a" + "b": 1
      KeyValueExpr(CallExpr(Ident(run_), <<>>), IntLit),              \* run(): 1
      NamedCase(name_, <<"z">>) }                                     \* {name: "z"}

TableLits ==
    {CompositeLit(t, elts, 1) : t \in SliceTypes, elts \in SeqsUpTo(SliceElts, MaxElts)}
    \cup {CompositeLit(t, elts, 1) : t \in MapTypes, elts \in SeqsUpTo(MapElts, MaxElts)}

\* extractFromCompositeLiteral(compLit, fset), the literal being the source
ExtractFromCompositeLiteral ==
    /\ pc = "call"
    /\ pc' = "returned"
    /\ LET lit == Place(compLit, 0)
       IN testCases' = extractFromCompositeLiteral(lit, NewFileSet(lit))
    /\ UNCHANGED <<filename, src, symbols, symbolsIsNil, err,
                   compLit, caseLit, structFields, testName,
                   fieldVars, literalVars, mainVars,
                   fileVars, commandVars, providerVars>>

InitTable ==
    /\ compLit \in TableLits
    /\ pc = "call"
    /\ NoField
    /\ NoLiteral
    /\ NoOutput
    /\ NoFile
    /\ NoCommand
    /\ NoProvider
    /\ filename = "a_test.go"
    /\ src = [syntaxError |-> FALSE, file |-> File(<<>>)]
    /\ symbols = <<>>
    /\ symbolsIsNil = TRUE
    /\ err = ""
    /\ testCases = <<>>
    /\ caseLit = Nil
    /\ structFields = <<>>
    /\ testName = <<>>

NextTable == ExtractFromCompositeLiteral

SpecTable == InitTable /\ [][NextTable]_vars

(***************************************************************************)
(* Struct literals, as extractTestName receives them.                      *)
(***************************************************************************)
CaseElts ==
    {KeyValueExpr(Ident(k), v) :
        k \in {name_, DESC_, input_},
        v \in {Str(<<"a">>), RawStr(<<"b">>), Ident(x_)}}
    \cup { KeyValueExpr(Str(<<"k">>), Str(<<"a">>)),      \* "k": "a"
           Str(<<"p">>),                                  \* "p"
           IntLit }                                       \* 1

CaseLits == {CompositeLit(Nil, elts, 0) : elts \in SeqsUpTo(CaseElts, MaxFields)}

FieldLists ==
    { <<>>,                                     \* the type is not a struct type
      StructOf(<<name_, input_>>).kids,         \* struct{name, input string}
      StructOf(<<input_, DESC_>>).kids,         \* struct{input, DESC string}
      <<Field(<<Ident(input_), Ident(x_)>>, Ident(int_)),      \* struct{input, x int;
        Field(<<Ident(name_)>>, Ident(string_))>>,             \*        name string}
      <<Field(<<Ident(input_), Ident(name_)>>, Ident(string_))>> }  \* struct{input, name string}

\* extractTestName(caseLit, structFields)
ExtractTestName ==
    /\ pc = "call"
    /\ pc' = "returned"
    /\ testName' = extractTestName(caseLit, structFields)
    /\ UNCHANGED <<filename, src, symbols, symbolsIsNil, err,
                   compLit, testCases, caseLit, structFields,
                   fieldVars, literalVars, mainVars,
                   fileVars, commandVars, providerVars>>

InitName ==
    /\ caseLit \in CaseLits
    /\ structFields \in FieldLists
    /\ pc = "call"
    /\ NoField
    /\ NoLiteral
    /\ NoOutput
    /\ NoFile
    /\ NoCommand
    /\ NoProvider
    /\ filename = "a_test.go"
    /\ src = [syntaxError |-> FALSE, file |-> File(<<>>)]
    /\ symbols = <<>>
    /\ symbolsIsNil = TRUE
    /\ err = ""
    /\ compLit = Nil
    /\ testCases = <<>>
    /\ testName = <<>>

NextName == ExtractTestName

SpecName == InitName /\ [][NextName]_vars

(***************************************************************************)
(* The command: main parses one source and writes the Symbols to os.Stdout *)
(* as JSON.  A JSON value is [json, items, ...]: json is "null", "array"   *)
(* or "object", items the elements of an array.                            *)
(***************************************************************************)
JSONNull == [json |-> "null", items |-> <<>>]

\* encoding/json of one Symbol without its children member
jsonLeaf(symbol) ==
    [json |-> "object", items |-> <<>>,
     name |-> symbol.name, detail |-> symbol.detail, kind |-> symbol.kind,
     range |-> symbol.range]

\* encoding/json of a []Symbol without children (the cases of a function):
\* null for a nil slice, an array otherwise
jsonCases(list, isNil) ==
    IF isNil THEN JSONNull
    ELSE [json |-> "array",
          items |-> [i \in 1..Len(list) |->
                        [member |-> jsonLeaf(list[i]),
                         children |-> IF list[i].childrenIsNil THEN JSONNull
                                      ELSE [json |-> "array", items |-> <<>>]]]]

\* encoding/json of the []Symbol that Parse returned
jsonMarshal(list, isNil) ==
    IF isNil THEN JSONNull
    ELSE [json |-> "array",
          items |-> [i \in 1..Len(list) |->
                        [member |-> jsonLeaf(list[i]),
                         children |-> jsonCases(list[i].children,
                                                list[i].childrenIsNil)]]]

\* json.NewEncoder(os.Stdout).Encode(symbols)
Encode ==
    /\ pc = "returned"
    /\ err = ""
    /\ pc' = "exited"
    /\ stdout' = Append(stdout, jsonMarshal(symbols, symbolsIsNil))
    /\ exitCode' = 0
    /\ UNCHANGED <<filename, src, symbols, symbolsIsNil, err,
                   compLit, testCases, caseLit, structFields, testName,
                   fieldVars, literalVars, previous,
                   fileVars, osArgs, stdin, stderr, providerVars>>

\* a failure of Parse reported after the encoder has written the nil slice
FatalAfterEncode ==
    /\ pc = "returned"
    /\ err # ""
    /\ pc' = "exited"
    /\ stdout' = Append(stdout, jsonMarshal(symbols, symbolsIsNil))
    /\ stderr' = Append(stderr, <<"Failed to parse", err>>)
    /\ exitCode' = 1
    /\ UNCHANGED <<filename, src, symbols, symbolsIsNil, err,
                   compLit, testCases, caseLit, structFields, testName,
                   fieldVars, literalVars, previous,
                   fileVars, osArgs, stdin, providerVars>>

\* log.Fatalf("Failed to parse: %v", err)
Fatal ==
    /\ pc = "returned"
    /\ err # ""
    /\ pc' = "exited"
    /\ stderr' = Append(stderr, <<"Failed to parse", err>>)
    /\ exitCode' = 1
    /\ UNCHANGED <<filename, src, symbols, symbolsIsNil, err,
                   compLit, testCases, caseLit, structFields, testName,
                   fieldVars, literalVars, mainVars,
                   fileVars, osArgs, stdin, providerVars>>

\* the sources main is run on: a test function with any of the bodies, a
\* file without declarations, a source that does not parse, no file name
MainInputs ==
    {<<"a_test.go", [syntaxError |-> FALSE,
                     file |-> File(<<FuncDecl(TestA, FALSE, TRUE, b)>>)]>> : b \in Bodies}
    \cup {<<"a_test.go", [syntaxError |-> FALSE, file |-> File(<<>>)]>>,
          <<"a_test.go", [syntaxError |-> TRUE, file |-> File(<<>>)]>>,
          <<"", [syntaxError |-> FALSE, file |-> File(<<>>)]>>}

InitMain ==
    /\ \E in \in MainInputs : filename = in[1] /\ src = in[2]
    /\ pc = "call"
    /\ symbols = <<>>
    /\ symbolsIsNil = TRUE
    /\ err = ""
    /\ NoCall
    /\ NoField
    /\ NoLiteral
    /\ NoOutput
    /\ NoFile
    /\ NoCommand
    /\ NoProvider

NextMain == Parse \/ Encode \/ Fatal

SpecMain == InitMain /\ [][NextMain]_vars

(***************************************************************************)
(* Several invocations of Parse in one process.                            *)
(***************************************************************************)
\* map[string]int{"m": 1, "a": 1}
TwoEntryMapTable ==
    CompositeLit(MapType(Ident(string_), Ident(int_)),
                 <<KeyValueExpr(Str(<<"m">>), IntLit), KeyValueExpr(Str(<<"a">>), IntLit)>>, 1)

\* map[string]int{x: 1}
IdentKeyMapTable ==
    CompositeLit(MapType(Ident(string_), Ident(int_)),
                 <<KeyValueExpr(Ident(x_), IntLit)>>, 1)

\* []T{ {"p", 1} }
OpaquePositionalTable ==
    CompositeLit(ArrayType(Ident(T_)), <<CompositeLit(Nil, <<Str(<<"p">>), IntLit>>, 0)>>, 1)

\* a test function with one of the statements as its body, a file without
\* declarations, a source that does not parse, no file name
CallInputs ==
    {<<"a_test.go", [syntaxError |-> FALSE,
                     file |-> File(<<FuncDecl(TestA, FALSE, TRUE, <<stmt>>)>>)]>> :
        stmt \in BodyStmts \cup {Define(TwoEntryMapTable), Define(IdentKeyMapTable),
                                 Define(OpaquePositionalTable), Define(UnnamedTable),
                                 PlainCall}}
    \cup {<<"a_test.go", [syntaxError |-> FALSE, file |-> File(<<>>)]>>,
          <<"a_test.go", [syntaxError |-> TRUE, file |-> File(<<>>)]>>,
          <<"", [syntaxError |-> FALSE, file |-> File(<<>>)]>>}

\* the caller keeps what Parse returned and calls Parse again
CallAgain ==
    /\ pc = "returned"
    /\ Len(previous) < MaxCalls - 1
    /\ previous' = Append(previous, [filename |-> filename, src |-> src,
                                     symbols |-> symbols, symbolsIsNil |-> symbolsIsNil,
                                     err |-> err])
    /\ \E in \in CallInputs : filename' = in[1] /\ src' = in[2]
    /\ pc' = "call"
    /\ UNCHANGED <<symbols, symbolsIsNil, err,
                   compLit, testCases, caseLit, structFields, testName,
                   fieldVars, literalVars, stdout,
                   fileVars, commandVars, providerVars>>

InitCalls ==
    /\ \E in \in CallInputs : filename = in[1] /\ src = in[2]
    /\ pc = "call"
    /\ symbols = <<>>
    /\ symbolsIsNil = TRUE
    /\ err = ""
    /\ NoCall
    /\ NoField
    /\ NoLiteral
    /\ NoOutput
    /\ NoFile
    /\ NoCommand
    /\ NoProvider

NextCalls == Parse \/ CallAgain

SpecCalls == InitCalls /\ [][NextCalls]_vars

(***************************************************************************)
(* Field names, as isTestNameField receives them.                          *)
(***************************************************************************)
NAME_ == <<"N","A","M","E">>

\* the declared names and other identifiers of struct fields
FieldWords ==
    {testNameFields[i] : i \in 1..Len(testNameFields)}
    \cup { <<"t","e","s","t","n","a","m","e">>, <<"n","a","m">>, <<"n","a","m","e","s">>,
           <<"n","a","m","e","1">>, <<"t","e","s","t","_","n","a","m","e">>,
           <<"d","e","s","c","r">>, <<"t","i","t","l","e","s">>,
           <<"s","c","e","n","a","r","i","o","s">>, <<"t","e","s","t">>,
           input_, want_, <<"c","a","s","e">>, <<"l","a","b","e","l">>, <<"e","m","a","n">> }

\* a word with the letters at the given positions in upper case
Cased(word, upper) ==
    [i \in 1..Len(word) |->
        IF i \in upper /\ word[i] \in DOMAIN UpperOf THEN UpperOf[word[i]] ELSE word[i]]

\* the spellings of a word: as declared, upper case, capitalized, all but the
\* first letter in upper case, every second letter in upper case
Spellings(word) ==
    { Cased(word, {}),
      Cased(word, 1..Len(word)),
      Cased(word, {1}),
      Cased(word, 2..Len(word)),
      Cased(word, {i \in 1..Len(word) : i % 2 = 0}) }

FieldNamesIn == UNION {Spellings(w) : w \in FieldWords}

\* isTestNameField(fieldName)
IsTestNameField ==
    /\ pc = "call"
    /\ pc' = "returned"
    /\ fieldIsName' = isTestNameField(fieldNameIn)
    /\ UNCHANGED <<filename, src, symbols, symbolsIsNil, err,
                   compLit, testCases, caseLit, structFields, testName,
                   fieldNameIn, literalVars, mainVars,
                   fileVars, commandVars, providerVars>>

InitField ==
    /\ fieldNameIn \in FieldNamesIn
    /\ fieldIsName = FALSE
    /\ pc = "call"
    /\ filename = "a_test.go"
    /\ src = [syntaxError |-> FALSE, file |-> File(<<>>)]
    /\ symbols = <<>>
    /\ symbolsIsNil = TRUE
    /\ err = ""
    /\ NoCall
    /\ NoLiteral
    /\ NoOutput
    /\ NoFile
    /\ NoCommand
    /\ NoProvider

NextField == IsTestNameField

SpecField == InitField /\ [][NextField]_vars

(***************************************************************************)
(* String literals, as extractStringLiteral receives them: the literal is  *)
(* the Go source text that denotes the string in content.                  *)
(***************************************************************************)
Chars == {"a", DQuote, BQuote, "\n", "\t", "\\"}

\* the source text of one character inside an interpreted string literal
EscapeChar(c) ==
    CASE c = DQuote -> <<"\\", DQuote>>
      [] c = "\\" -> <<"\\", "\\">>
      [] c = "\n" -> <<"\\", "n">>
      [] c = "\t" -> <<"\\", "t">>
      [] OTHER -> <<c>>

\* "..." with escape sequences
QuoteInterpreted(str) ==
    <<DQuote>> \o Flatten([i \in 1..Len(str) |-> EscapeChar(str[i])]) \o <<DQuote>>

\* a raw literal: the characters between two backquotes
QuoteRaw(str) == <<BQuote>> \o str \o <<BQuote>>

\* the strings and the literals that denote them; a raw literal cannot hold
\* a backquote
StringLiterals ==
    {[content |-> str, lit |-> BasicLit("STRING", QuoteInterpreted(str))] :
        str \in SeqsUpTo(Chars, MaxChars)}
    \cup {[content |-> str, lit |-> BasicLit("STRING", QuoteRaw(str))] :
        str \in SeqsUpTo(Chars \ {BQuote}, MaxChars)}

\* extractStringLiteral(expr)
ExtractStringLiteral ==
    /\ pc = "call"
    /\ pc' = "returned"
    /\ unquotedOut' = extractStringLiteral(basicLit)
    /\ UNCHANGED <<filename, src, symbols, symbolsIsNil, err,
                   compLit, testCases, caseLit, structFields, testName,
                   fieldVars, content, basicLit, mainVars,
                   fileVars, commandVars, providerVars>>

InitLiteral ==
    /\ \E l \in StringLiterals : content = l.content /\ basicLit = l.lit
    /\ unquotedOut = [s |-> <<>>, ok |-> FALSE]
    /\ pc = "call"
    /\ filename = "a_test.go"
    /\ src = [syntaxError |-> FALSE, file |-> File(<<>>)]
    /\ symbols = <<>>
    /\ symbolsIsNil = TRUE
    /\ err = ""
    /\ NoCall
    /\ NoField
    /\ NoOutput
    /\ NoFile
    /\ NoCommand
    /\ NoProvider

NextLiteral == ExtractStringLiteral

SpecLiteral == InitLiteral /\ [][NextLiteral]_vars

(***************************************************************************)
(* ParseFile: a path and what the file system holds there.  The state of   *)
(* the disk is "missing" (no such file), "unreadable" (os.Open is denied), *)
(* "directory" (os.Open succeeds, reading fails) or "file".                *)
(***************************************************************************)
\* strings.HasSuffix
HasSuffix(s, suffix) ==
    /\ Len(s) >= Len(suffix)
    /\ SubSeq(s, Len(s) - Len(suffix) + 1, Len(s)) = suffix

dotGo == <<".", "g", "o">>

\* what Parse(filePath, f) returns for a file name that is not empty, as a
\* record: reading a directory fails inside parser.ParseFile
parseOpened(onDisk) ==
    IF onDisk.state = "directory" \/ onDisk.src.syntaxError
    THEN [symbols |-> <<>>, symbolsIsNil |-> TRUE, err |-> "failed to parse Go file"]
    ELSE LET node == parserParseFile(onDisk.src)
             fset == NewFileSet(node)
         IN [symbols |-> inspectFile(node, fset), symbolsIsNil |-> FALSE, err |-> ""]

\* ParseFile opening the file before it validates the path
ParseFileOpenFirst ==
    /\ pc = "open"
    /\ pc' = "returned"
    /\ opened' = Append(opened, filePath)
    /\ LET r == IF disk.state \in {"missing", "unreadable"}
                THEN [symbols |-> <<>>, symbolsIsNil |-> TRUE, err |-> "failed to open file"]
                ELSE IF filePath = <<>>
                THEN [symbols |-> <<>>, symbolsIsNil |-> TRUE,
                      err |-> "file path cannot be empty"]
                ELSE IF ~HasSuffix(filePath, dotGo)
                THEN [symbols |-> <<>>, symbolsIsNil |-> TRUE,
                      err |-> "file must have .go extension"]
                ELSE parseOpened(disk)
       IN /\ symbols' = r.symbols
          /\ symbolsIsNil' = r.symbolsIsNil
          /\ err' = r.err
    /\ UNCHANGED <<filename, src, compLit, testCases, caseLit, structFields, testName,
                   fieldVars, literalVars, mainVars, filePath, disk,
                   commandVars, providerVars>>

\* ParseFile(filePath); the file it opened is closed when it returns
ParseFile ==
    /\ pc = "open"
    /\ pc' = "returned"
    /\ IF filePath = <<>>
       THEN /\ symbols' = <<>>
            /\ symbolsIsNil' = TRUE
            /\ err' = "file path cannot be empty"
            /\ opened' = opened
       ELSE IF ~HasSuffix(filePath, dotGo)
       THEN /\ symbols' = <<>>
            /\ symbolsIsNil' = TRUE
            /\ err' = "file must have .go extension"
            /\ opened' = opened
       ELSE IF disk.state \in {"missing", "unreadable"}
       THEN /\ symbols' = <<>>
            /\ symbolsIsNil' = TRUE
            /\ err' = "failed to open file"
            /\ opened' = Append(opened, filePath)
       ELSE LET r == parseOpened(disk)
            IN /\ symbols' = r.symbols
               /\ symbolsIsNil' = r.symbolsIsNil
               /\ err' = r.err
               /\ opened' = Append(opened, filePath)
    /\ UNCHANGED <<filename, src, compLit, testCases, caseLit, structFields, testName,
                   fieldVars, literalVars, mainVars, filePath, disk,
                   commandVars, providerVars>>

\* the paths: none, a.go, a_test.go, .go, a.txt, a, a.GO, a.go.txt, go
Paths ==
    {<<>>, <<"a">> \o dotGo, <<"a", "_", "t", "e", "s", "t">> \o dotGo, dotGo,
     <<"a", ".", "t", "x", "t">>, <<"a">>, <<"a", ".", "G", "O">>,
     <<"a">> \o dotGo \o <<".", "t", "x", "t">>, <<"g", "o">>}

\* what the disk holds at the path
Disks ==
    {[state |-> s, src |-> EmptySource] : s \in {"missing", "unreadable", "directory"}}
    \cup {[state |-> "file", src |-> in[2]] : in \in {c \in CallInputs : c[1] # ""}}

InitFile ==
    /\ filePath \in Paths
    /\ disk \in Disks
    /\ opened = <<>>
    /\ pc = "open"
    /\ filename = ""
    /\ src = EmptySource
    /\ symbols = <<>>
    /\ symbolsIsNil = TRUE
    /\ err = ""
    /\ NoCall
    /\ NoField
    /\ NoLiteral
    /\ NoOutput
    /\ NoCommand
    /\ NoProvider

NextFile == ParseFile

SpecFile == InitFile /\ [][NextFile]_vars

(***************************************************************************)
(* The command with its arguments: main reads os.Args, parses standard     *)
(* input or the file at the path, and writes JSON or a diagnostic.         *)
(***************************************************************************)
dash == <<"-">>

\* main up to the call of Parse or ParseFile: without an argument
\* log.Fatalf prints the usage and exits with status 1
Main ==
    /\ pc = "main"
    /\ IF Len(osArgs) < 1
       THEN /\ pc' = "exited"
            /\ stderr' = Append(stderr, <<"Usage", "">>)
            /\ exitCode' = 1
            /\ UNCHANGED <<filename, src, filePath>>
       ELSE IF osArgs[1] = dash
       THEN /\ pc' = "call"
            /\ filename' = "<stdin>"
            /\ src' = stdin
            /\ UNCHANGED <<filePath, stderr, exitCode>>
       ELSE /\ pc' = "open"
            /\ filePath' = osArgs[1]
            /\ UNCHANGED <<filename, src, stderr, exitCode>>
    /\ UNCHANGED <<symbols, symbolsIsNil, err,
                   compLit, testCases, caseLit, structFields, testName,
                   fieldVars, literalVars, mainVars, disk, opened, osArgs, stdin,
                   providerVars>>

\* func TestA(t *testing.T) { tests := []struct{...}{{name: "a"}, ...} }
StdinSource ==
    [syntaxError |-> FALSE, file |-> File(<<FuncDecl(TestA, FALSE, TRUE, <<Define(SliceTable)>>)>>)]

\* what standard input holds: nothing, a source with a test function, a
\* source that does not parse
Stdins == {EmptySource, StdinSource, [syntaxError |-> TRUE, file |-> File(<<>>)]}

\* the arguments: none, "-", "-" and a path, one path
CommandLines ==
    {<<>>, <<dash>>, <<dash, <<"a">> \o dotGo>>} \cup {<<p>> : p \in Paths}

InitCommand ==
    /\ osArgs \in CommandLines
    /\ stdin \in Stdins
    /\ disk \in Disks
    /\ pc = "main"
    /\ exitCode = -1
    /\ stderr = <<>>
    /\ filePath = <<>>
    /\ opened = <<>>
    /\ filename = ""
    /\ src = EmptySource
    /\ symbols = <<>>
    /\ symbolsIsNil = TRUE
    /\ err = ""
    /\ NoCall
    /\ NoField
    /\ NoLiteral
    /\ NoOutput
    /\ NoProvider

NextCommand == Main \/ Parse \/ ParseFile \/ Encode \/ Fatal

SpecCommand == InitCommand /\ [][NextCommand]_vars

(***************************************************************************)
(* The extension: GoTddOutlineProvider answers requests for the symbols of *)
(* a document by running the parser as a child process.  Every callback    *)
(* runs to completion, and the code after the await in                     *)
(* provideDocumentSymbols runs when the promise of runParser settles,      *)
(* before any other callback.  A request c has its own document, token,    *)
(* child process, timer, promise and stdout variable.                      *)
(*                                                                         *)
(* The parser's standard output arrives in chunks [of, json, piece]: of is *)
(* the request whose text was parsed, json what the whole output denotes   *)
(* ("symbols", "empty" for [], "null").                                    *)
(***************************************************************************)
MaxChunks == 2

\* what the parser prints for the text of request c
Output(c, parser) ==
    IF parser = "symbols"
    THEN [k \in 1..MaxChunks |-> [of |-> c, json |-> "symbols", piece |-> k]]
    ELSE IF parser \in {"empty", "null"}
    THEN <<[of |-> c, json |-> parser, piece |-> 1]>>
    ELSE <<>>

\* the exit status of a parser that is not killed
ExitStatus(parser) == IF parser = "exit1" THEN "1" ELSE "0"

\* JSON.parse(result.stdout): throws unless the text is one whole output
JSONparse(text) ==
    IF text = <<>> THEN [ok |-> FALSE, isArray |-> FALSE, items |-> <<>>]
    ELSE IF text # Output(text[1].of, text[1].json)
    THEN [ok |-> FALSE, isArray |-> FALSE, items |-> <<>>]
    ELSE IF text[1].json = "symbols"
    THEN [ok |-> TRUE, isArray |-> TRUE, items |-> <<[document |-> text[1].of]>>]
    ELSE IF text[1].json = "empty"
    THEN [ok |-> TRUE, isArray |-> TRUE, items |-> <<>>]
    ELSE [ok |-> TRUE, isArray |-> FALSE, items |-> <<>>]

\* a promise: its state, the value it resolved with, and what else settled
\* it: null or the error
Resolved(value) == [state |-> "resolved", value |-> value, what |-> "value"]
ResolvedNull == [state |-> "resolved", value |-> <<>>, what |-> "null"]
Rejected(error) == [state |-> "rejected", value |-> <<>>, what |-> error]
Pending == [state |-> "pending", value |-> <<>>, what |-> ""]
NotCalled == [state |-> "none", value |-> <<>>, what |-> ""]

\* provideDocumentSymbols from the await on: what it returns and what it
\* appends to the output channel, for a settled promise of runParser
afterAwait(settled) ==
    IF settled.state = "rejected"
    THEN [symbols |-> <<>>, lines |-> <<"Error">>]
    ELSE IF settled.what = "null"
    THEN [symbols |-> <<>>, lines |-> <<>>]
    ELSE LET goSymbols == JSONparse(settled.value)
         IN IF ~goSymbols.ok THEN [symbols |-> <<>>, lines |-> <<"Error">>]
            ELSE IF ~goSymbols.isArray THEN [symbols |-> <<>>, lines |-> <<>>]
            ELSE [symbols |-> goSymbols.items, lines |-> <<>>]

\* resolve or reject of runParser's promise: a settled promise stays as it
\* is; settling it resumes provideDocumentSymbols
Settle(c, outcome) ==
    IF promise[c].state = "pending"
    THEN LET r == afterAwait(outcome)
         IN /\ promise' = [promise EXCEPT ![c] = outcome]
            /\ answer' = [answer EXCEPT ![c] = Resolved(r.symbols)]
            /\ call' = [call EXCEPT ![c] = "done"]
            /\ channel' = channel \o r.lines
    ELSE UNCHANGED <<promise, answer, call, channel>>

\* clearTimeout(timeoutId)
clearTimeout(t) == IF t.state = "armed" THEN [t EXCEPT !.state = "cleared"] ELSE t

\* proc.kill() by the timer or the token: a signal to a process that runs
kill(p, by) ==
    IF p.state = "running" /\ p.killedBy = "none" THEN [p EXCEPT !.killedBy = by] ELSE p

goVars == <<filename, src, pc, symbols, symbolsIsNil, err,
            compLit, testCases, caseLit, structFields, testName,
            fieldVars, literalVars, mainVars, fileVars, commandVars>>

\* provideDocumentSymbols(document, token) up to the await, runParser
\* included; the parser starts or fails to start
ProvideDocumentSymbols(c) ==
    /\ call[c] = "idle"
    /\ IF ~parserExists \/ token[c]
       THEN /\ answer' = [answer EXCEPT ![c] = Resolved(<<>>)]
            /\ call' = [call EXCEPT ![c] = "done"]
            /\ UNCHANGED <<child, timer, promise, buffers, channel>>
       ELSE IF document[c].fileSize < 0
       THEN /\ answer' = [answer EXCEPT ![c] = Rejected("ENOENT")]
            /\ call' = [call EXCEPT ![c] = "done"]
            /\ UNCHANGED <<child, timer, promise, buffers, channel>>
       ELSE IF document[c].fileSize > config.maxFileSize
       THEN /\ answer' = [answer EXCEPT ![c] = Resolved(<<>>)]
            /\ call' = [call EXCEPT ![c] = "done"]
            /\ channel' = Append(channel, "Warning: File too large")
            /\ UNCHANGED <<child, timer, promise, buffers>>
       ELSE /\ \E starts \in BOOLEAN :
                child' = [child EXCEPT ![c] =
                            [state |-> IF starts THEN "running" ELSE "failing",
                             input |-> document[c].textSize,
                             delivered |-> 0, killedBy |-> "none", code |-> ""]]
            /\ timer' = [timer EXCEPT ![c] = [state |-> "armed", delay |-> config.timeout]]
            /\ promise' = [promise EXCEPT ![c] = Pending]
            /\ buffers' = [buffers EXCEPT ![c] = <<>>]
            /\ answer' = [answer EXCEPT ![c] = Pending]
            /\ call' = [call EXCEPT ![c] = "awaiting"]
            /\ UNCHANGED channel
    /\ UNCHANGED <<goVars, settings, config, parserExists, document, token>>

\* a cancellation that no listener hears
OnCancellationIgnored(c) ==
    /\ ~token[c]
    /\ token' = [token EXCEPT ![c] = TRUE]
    /\ UNCHANGED <<goVars, settings, config, parserExists, document, buffers,
                   timer, child, promise, answer, call, channel>>

\* the token is cancelled; the listener of runParser, once registered,
\* clears the timer, kills the process and resolves with null
OnCancellationRequested(c) ==
    /\ ~token[c]
    /\ token' = [token EXCEPT ![c] = TRUE]
    /\ IF child[c].state = "none"
       THEN UNCHANGED <<timer, child, promise, answer, call, channel>>
       ELSE /\ timer' = [timer EXCEPT ![c] = clearTimeout(timer[c])]
            /\ child' = [child EXCEPT ![c] = kill(child[c], "token")]
            /\ Settle(c, ResolvedNull)
    /\ UNCHANGED <<goVars, settings, config, parserExists, document, buffers>>

\* a stdout variable that the invocations of runParser share
OnStdoutDataShared(c) ==
    /\ child[c].state = "running"
    /\ child[c].delivered < Len(Output(c, document[c].parser))
    /\ buffers' = [r \in DOMAIN buffers |->
                      Append(buffers[r], Output(c, document[c].parser)[child[c].delivered + 1])]
    /\ child' = [child EXCEPT ![c].delivered = @ + 1]
    /\ UNCHANGED <<goVars, settings, config, parserExists, document, token,
                   timer, promise, answer, call, channel>>

\* proc.stdout.on("data"): the next chunk of the parser's output
OnStdoutData(c) ==
    /\ child[c].state = "running"
    /\ child[c].delivered < Len(Output(c, document[c].parser))
    /\ buffers' = [buffers EXCEPT ![c] =
                      Append(@, Output(c, document[c].parser)[child[c].delivered + 1])]
    /\ child' = [child EXCEPT ![c].delivered = @ + 1]
    /\ UNCHANGED <<goVars, settings, config, parserExists, document, token,
                   timer, promise, answer, call, channel>>

\* the exit codes the close event can carry: that of the failed spawn, null
\* for a process that the signal ended, the parser's own once it has
\* written all its output
CloseCodes(c) ==
    IF child[c].state = "errored" THEN {"-2"}
    ELSE (IF child[c].killedBy # "none" THEN {"null"} ELSE {})
         \cup (IF child[c].delivered = Len(Output(c, document[c].parser))
               THEN {ExitStatus(document[c].parser)} ELSE {})

\* a close handler that leaves the timer running
OnCloseKeepingTimer(c) ==
    /\ child[c].state \in {"running", "errored"}
    /\ \E code \in CloseCodes(c) :
        /\ child' = [child EXCEPT ![c].state = "closed", ![c].code = code]
        /\ timer' = timer
        /\ Settle(c, IF code = "0" THEN Resolved(buffers[c]) ELSE Rejected("exit"))
    /\ UNCHANGED <<goVars, settings, config, parserExists, document, token, buffers>>

\* proc.on("close")
OnClose(c) ==
    /\ child[c].state \in {"running", "errored"}
    /\ \E code \in CloseCodes(c) :
        /\ child' = [child EXCEPT ![c].state = "closed", ![c].code = code]
        /\ timer' = [timer EXCEPT ![c] = clearTimeout(timer[c])]
        /\ Settle(c, IF code = "0" THEN Resolved(buffers[c]) ELSE Rejected("exit"))
    /\ UNCHANGED <<goVars, settings, config, parserExists, document, token, buffers>>

\* proc.on("error"): the process could not be started
OnError(c) ==
    /\ child[c].state = "failing"
    /\ child' = [child EXCEPT ![c].state = "errored"]
    /\ timer' = [timer EXCEPT ![c] = clearTimeout(timer[c])]
    /\ Settle(c, Rejected("error"))
    /\ UNCHANGED <<goVars, settings, config, parserExists, document, token, buffers>>

\* a timer whose callback kills the process and leaves the promise alone
OnTimeoutWithoutReject(c) ==
    /\ timer[c].state = "armed"
    /\ timer' = [timer EXCEPT ![c].state = "fired"]
    /\ child' = [child EXCEPT ![c] = kill(child[c], "timer")]
    /\ UNCHANGED <<promise, answer, call, channel>>
    /\ UNCHANGED <<goVars, settings, config, parserExists, document, token, buffers>>

\* the callback of setTimeout: config.timeout has passed
OnTimeout(c) ==
    /\ timer[c].state = "armed"
    /\ timer' = [timer EXCEPT ![c].state = "fired"]
    /\ child' = [child EXCEPT ![c] = kill(child[c], "timer")]
    /\ Settle(c, Rejected("timeout"))
    /\ UNCHANGED <<goVars, settings, config, parserExists, document, token, buffers>>

\* the settings of go-tdt-outline: unset, or a timeout of 5000 ms, or a
\* maximum file size of 2 bytes
Settings ==
    {[timeout |-> t, maxFileSize |-> m] : t \in {<<>>, <<5000>>}, m \in {<<>>, <<2>>}}

\* the sizes of the file on disk (-1: there is no file) and of the text in
\* the editor, with what the parser makes of the text
Documents ==
    {[fileSize |-> f, textSize |-> t, parser |-> "symbols"] :
        f \in {-1, 1, 3, DefaultMaxFileSize + 1}, t \in {1, 3, DefaultMaxFileSize + 1}}
    \cup {[fileSize |-> 1, textSize |-> 1, parser |-> p] : p \in {"empty", "null", "exit1"}}

\* no process, timer or promise before provideDocumentSymbols is called
Idle(requests) ==
    /\ call = [c \in requests |-> "idle"]
    /\ answer = [c \in requests |-> NotCalled]
    /\ token = [c \in requests |-> FALSE]
    /\ child = [c \in requests |->
                  [state |-> "none", input |-> -1, delivered |-> 0,
                   killedBy |-> "none", code |-> ""]]
    /\ timer = [c \in requests |-> [state |-> "unset", delay |-> 0]]
    /\ promise = [c \in requests |-> NotCalled]
    /\ buffers = [c \in requests |-> <<>>]
    /\ channel = <<>>

\* the parser is not called in this process
NoParse ==
    /\ filename = ""
    /\ src = EmptySource
    /\ pc = "call"
    /\ symbols = <<>>
    /\ symbolsIsNil = TRUE
    /\ err = ""
    /\ NoCall
    /\ NoField
    /\ NoLiteral
    /\ NoOutput
    /\ NoFile
    /\ NoCommand

InitProvider ==
    /\ settings \in Settings
    /\ config = loadConfiguration(settings)
    /\ parserExists \in BOOLEAN
    /\ document \in [{1} -> Documents]
    /\ Idle({1})
    /\ NoParse

NextProvider ==
    \E c \in DOMAIN document :
        \/ ProvideDocumentSymbols(c)
        \/ OnCancellationRequested(c)
        \/ OnStdoutData(c)
        \/ OnClose(c)
        \/ OnError(c)
        \/ OnTimeout(c)

SpecProvider == InitProvider /\ [][NextProvider]_vars

\* an armed timer fires: the event loop runs the callback of setTimeout
\* once the delay has passed
SpecProviderFair == SpecProvider /\ \A c \in {1} : WF_vars(OnTimeout(c))

\* two requests at a time, for two documents
Requests == {1, 2}

ConcurrentDocuments ==
    {[fileSize |-> 1, textSize |-> 1, parser |-> p] : p \in {"symbols", "empty", "exit1"}}

InitConcurrent ==
    /\ settings = [timeout |-> <<>>, maxFileSize |-> <<>>]
    /\ config = loadConfiguration(settings)
    /\ parserExists = TRUE
    /\ document \in [Requests -> ConcurrentDocuments]
    /\ Idle(Requests)
    /\ NoParse

NextConcurrent == NextProvider

SpecConcurrent == InitConcurrent /\ [][NextConcurrent]_vars

(***************************************************************************)
(* Properties of Parse over whole files (Spec).                            *)
(***************************************************************************)
Returned == pc = "returned"
ParsedOk == Returned /\ filename # "" /\ ~src.syntaxError

RangeOf(node, fset) == toRange(Position(fset, node.pos), Position(fset, node.end))

\* a Symbol of the result is the Symbol of declaration d
EmittedFor(d, fset) ==
    \E i \in 1..Len(symbols) : symbols[i].range = RangeOf(d, fset)

StartsWithTest(name) ==
    Len(name) >= 4 /\ name[1] = "T" /\ name[2] = "e" /\ name[3] = "s" /\ name[4] = "t"

\* conditions (a)-(d) on a top-level declaration
QualifiesAndHasCases(d, fset) ==
    /\ d.kind = "FuncDecl"
    /\ StartsWithTest(FuncName(d).text)
    /\ FuncResultsNil(d)
    /\ FuncBody(d).kind = "BlockStmt"
    /\ Len(extractTestCases(FuncBody(d), fset)) >= 1

\* C1: Parse emits a Symbol for a declaration if and only if it is a function
\* whose name starts with "Test", that declares no result list, has a body,
\* and whose body yields at least one test case; every other declaration
\* yields no Symbol and no failure.
C1_EmitsIffTestFunction ==
    ParsedOk =>
        LET file == parserParseFile(src)
            fset == NewFileSet(file)
        IN /\ err = ""
           /\ \A k \in 1..Len(file.kids) :
                 EmittedFor(file.kids[k], fset) <=> QualifiesAndHasCases(file.kids[k], fset)

\* a file with an emitted function, a function with results and an external one
C1_Witness ==
    /\ ParsedOk
    /\ Len(symbols) >= 1
    /\ \E k \in 1..Len(src.file.kids) :
          src.file.kids[k].kind = "FuncDecl" /\ ~FuncResultsNil(src.file.kids[k])
    /\ \E k \in 1..Len(src.file.kids) :
          src.file.kids[k].kind = "FuncDecl" /\ FuncBody(src.file.kids[k]).kind = "Nil"

\* the k-th declaration is a function whose only table has no element with
\* a recognized name field
OnlyUnnamedCases(k) ==
    src.file.kids[k] = FuncDecl(TestA, FALSE, TRUE, <<Define(UnnamedTable)>>)

\* C2: every top-level Symbol of a result has at least one child, and a Test
\* function whose table elements all lack a recognized name field has no
\* Symbol at all.
C2_ZeroCaseSuppression ==
    ParsedOk =>
        LET file == parserParseFile(src)
            fset == NewFileSet(file)
        IN /\ \A i \in 1..Len(symbols) : Len(symbols[i].children) >= 1
           /\ \A k \in 1..Len(file.kids) :
                 OnlyUnnamedCases(k) => ~EmittedFor(file.kids[k], fset)

\* a file with a suppressed function between two emitted ones
C2_Witness ==
    /\ ParsedOk
    /\ Len(src.file.kids) = 3
    /\ OnlyUnnamedCases(2)
    /\ Len(symbols) = 2

\* C3: the result of Parse is exactly the Symbols of the qualifying test
\* functions that yield cases, in source order: none reordered, duplicated
\* or dropped.
C3_FunctionOrder ==
    ParsedOk =>
        LET file == parserParseFile(src)
            fset == NewFileSet(file)
            Emitted(d) == QualifiesAndHasCases(d, fset)
            emittedDecls == SelectSeq(file.kids, Emitted)
        IN /\ Len(symbols) = Len(emittedDecls)
           /\ \A i \in 1..Len(symbols) :
                 /\ symbols[i].name = FuncName(emittedDecls[i]).text
                 /\ symbols[i].range = RangeOf(emittedDecls[i], fset)
                 /\ symbols[i].children = extractTestCases(FuncBody(emittedDecls[i]), fset)
           /\ \A i, j \in 1..Len(symbols) :
                 i < j => symbols[i].range.start.line < symbols[j].range.start.line

\* three declarations, the first and the third emitted under different names
C3_Witness ==
    /\ ParsedOk
    /\ Len(src.file.kids) = 3
    /\ Len(symbols) = 2
    /\ symbols[1].name = TestA
    /\ symbols[2].name = TestOnly
    /\ src.file.kids[2].kind = "FuncDecl"

\* positions in (line, character) order
PosLE(a, b) == a.line < b.line \/ (a.line = b.line /\ a.character <= b.character)

\* C16: the range of every test-case Symbol lies within the range of the
\* function Symbol that owns it, and the ranges of two different function
\* Symbols do not overlap.
C16_RangeNesting ==
    ParsedOk =>
        /\ \A i \in 1..Len(symbols) :
              \A j \in 1..Len(symbols[i].children) :
                 /\ PosLE(symbols[i].range.start, symbols[i].children[j].range.start)
                 /\ PosLE(symbols[i].children[j].range.end, symbols[i].range.end)
        /\ \A i, k \in 1..Len(symbols) :
              i # k => \/ PosLE(symbols[i].range.end, symbols[k].range.start)
                       \/ PosLE(symbols[k].range.end, symbols[i].range.start)

\* three test functions, each with its cases
C16_Witness ==
    /\ ParsedOk
    /\ Len(symbols) = 3
    /\ \A i \in 1..3 : Len(symbols[i].children) >= 1
    /\ symbols[1].name # symbols[3].name

\* every function Symbol is a "test function" of kind 11 and every child a
\* "test case" of the given kind
ClassifiedAs(caseKind) ==
    \A i \in 1..Len(symbols) :
        /\ symbols[i].detail = "test function"
        /\ symbols[i].kind = 11
        /\ \A j \in 1..Len(symbols[i].children) :
              /\ symbols[i].children[j].detail = "test case"
              /\ symbols[i].children[j].kind = caseKind

NodesOf(n) == PreOrder(n)

\* the children of the visited nodes of the given kinds
KidsOfKinds(nodes, kinds) ==
    Flatten([i \in 1..Len(nodes) |->
                IF nodes[i].kind \in kinds THEN nodes[i].kids ELSE <<>>])

\* the values of the key-value pairs among the visited nodes
FieldValues(nodes) ==
    Flatten([i \in 1..Len(nodes) |->
                IF nodes[i].kind = "KeyValueExpr" THEN <<Value(nodes[i])>> ELSE <<>>])

\* the ranges of the elements of the literals of a sequence
ElementRanges(lits, fset) ==
    UNION {{RangeOf(Elts(lits[i])[k], fset) : k \in 1..Len(Elts(lits[i]))} :
              i \in 1..Len(lits)}

\* all test-case Symbols of the result
AllChildren ==
    UNION {{symbols[i].children[j] : j \in 1..Len(symbols[i].children)} :
              i \in 1..Len(symbols)}

\* C4: the children of every function Symbol are in document order:
\* consecutive children have non-decreasing start positions, also when a
\* table is nested inside an element of another table.
C4_ChildrenInDocumentOrder ==
    ParsedOk =>
        \A i \in 1..Len(symbols) :
            \A j \in 1..(Len(symbols[i].children) - 1) :
                PosLE(symbols[i].children[j].range.start,
                      symbols[i].children[j + 1].range.start)

\* the type of a literal is a slice type or map[string]V
IsQualifyingTable(lit) ==
    /\ lit.kind = "CompositeLit"
    /\ \/ LitType(lit).kind = "ArrayType"
       \/ /\ LitType(lit).kind = "MapType"
          /\ Key(LitType(lit)).kind = "Ident"
          /\ Key(LitType(lit)).text = string_

\* C5: table discovery is structural: the cases of every qualifying table
\* literal anywhere in the body are among the children, however the literal
\* is bound (assignment, var declaration, range operand, call argument, one
\* of several right-hand sides, return value).
C5_StructuralDiscovery ==
    ParsedOk =>
        LET file == parserParseFile(src)
            fset == NewFileSet(file)
            nodes == NodesOf(file)
            operands == KidsOfKinds(nodes, {"AssignStmt", "ValueSpec", "RangeStmt",
                                            "CallExpr", "ReturnStmt"})
            tables == SelectSeq(operands, IsQualifyingTable)
            children == AllChildren
        IN \A t \in 1..Len(tables) :
              LET cases == extractFromCompositeLiteral(tables[t], fset)
              IN \A k \in 1..Len(cases) : cases[k] \in children

\* C6: nested literals are not counted: the elements of a slice literal that
\* is the value of a field of a table element never appear as test cases;
\* every child is an element of a table that a statement binds.
C6_NoNestedDoubleCounting ==
    ParsedOk =>
        LET file == parserParseFile(src)
            fset == NewFileSet(file)
            nodes == NodesOf(file)
            IsTypedLiteral(v) == v.kind = "CompositeLit" /\ LitType(v).kind # "Nil"
            IsLiteral(v) == v.kind = "CompositeLit"
            inner == ElementRanges(SelectSeq(FieldValues(nodes), IsTypedLiteral), fset)
            bound == KidsOfKinds(nodes, {"AssignStmt", "ValueSpec", "RangeStmt"})
            outer == ElementRanges(SelectSeq(bound, IsLiteral), fset)
        IN \A c \in AllChildren : c.range \notin inner /\ c.range \in outer

\* the body binds the table whose element holds want: []Want{{Name: "n"}},
\* and the function's only child is the outer element "a"
C6_Witness ==
    /\ ParsedOk
    /\ FuncBody(src.file.kids[1]).kids = <<Define(NestedWantTable)>>
    /\ Len(symbols) = 1
    /\ Len(symbols[1].children) = 1
    /\ symbols[1].children[1].name = <<"a">>

\* C7: a map literal is a test table only when its key type is string: the
\* entries of a map literal with another key type (map[any]V) contribute no
\* test case, even when a key is a string literal.
C7_OnlyStringKeyedMaps ==
    ParsedOk =>
        LET file == parserParseFile(src)
            fset == NewFileSet(file)
            nodes == NodesOf(file)
            IsOtherMap(n) == /\ n.kind = "CompositeLit"
                             /\ LitType(n).kind = "MapType"
                             /\ ~IsQualifyingTable(n)
            entries == ElementRanges(SelectSeq(nodes, IsOtherMap), fset)
        IN \A c \in AllChildren : c.range \notin entries

\* the elements of the composite literals among the visited nodes that can
\* originate a test case: the key-value pairs of a literal of map type, the
\* composite literals of any other literal
CaseNodes(nodes) ==
    Flatten([i \in 1..Len(nodes) |->
        IF nodes[i].kind # "CompositeLit" THEN <<>>
        ELSE LET IsOrigin(e) ==
                     IF LitType(nodes[i]).kind = "MapType"
                     THEN e.kind = "KeyValueExpr"
                     ELSE e.kind = "CompositeLit"
             IN SelectSeq(Elts(nodes[i]), IsOrigin)])

\* the range of a Symbol is that of the node: 0-based line and character of
\* its first position and of its end position
HasRangeOf(symbol, node, fset) ==
    /\ symbol.range.start.line = Position(fset, node.pos).Line - 1
    /\ symbol.range.start.character = Position(fset, node.pos).Column - 1
    /\ symbol.range.end.line = Position(fset, node.end).Line - 1
    /\ symbol.range.end.character = Position(fset, node.end).Column - 1

WellFormedRange(r) ==
    /\ r.start.line >= 0 /\ r.start.character >= 0
    /\ r.end.line >= 0 /\ r.end.character >= 0
    /\ PosLE(r.start, r.end)

\* C15: the range of a function Symbol is that of the whole function
\* declaration, the range of a case that of its element composite literal
\* (slice) or of its whole key-value pair (map), each as (line-1, column-1)
\* of the first and of the end position; the four integers are >= 0 and
\* start <= end, also for an element that spans several lines.
C15_RangeAssembly ==
    ParsedOk =>
        LET file == parserParseFile(src)
            fset == NewFileSet(file)
            origins == CaseNodes(NodesOf(file))
        IN \A i \in 1..Len(symbols) :
              /\ HasRangeOf(symbols[i], file.kids[1], fset)
              /\ WellFormedRange(symbols[i].range)
              /\ \A j \in 1..Len(symbols[i].children) :
                    LET c == symbols[i].children[j]
                    IN /\ WellFormedRange(c.range)
                       /\ \E k \in 1..Len(origins) : HasRangeOf(c, origins[k], fset)

\* a body with a slice table whose first element spans several lines and a
\* map table: the children are a, b, x and the map entry m
C15_Witness ==
    /\ ParsedOk
    /\ FuncBody(src.file.kids[1]).kids = <<Define(ClosureTable), Define(MapTable)>>
    /\ Len(symbols) = 1
    /\ Len(symbols[1].children) = 4
    /\ symbols[1].children[1].range.end.line > symbols[1].children[1].range.start.line
    /\ symbols[1].children[4].name = <<"m">>

(***************************************************************************)
(* Properties of one table literal (SpecTable).                            *)
(***************************************************************************)
IsStringLit(e) == e.kind = "BasicLit" /\ e.tok = "STRING"

\* the field names of a struct type in declaration order, every name of a
\* grouped declaration on its own
DeclaredNames(fields) ==
    Flatten([i \in 1..Len(fields) |->
                [j \in 1..fields[i].n |-> FieldNames(fields[i])[j].text]])

IsPositional(lit) ==
    /\ Len(Elts(lit)) >= 1
    /\ \A k \in 1..Len(Elts(lit)) : Elts(lit)[k].kind # "KeyValueExpr"

\* the text of a string literal between its quotes; the literals of the
\* input domains hold no escape sequence
Interior(text) == SubSeq(text, 2, Len(text) - 1)

IsStringKeyedMap(lit) ==
    /\ LitType(lit).kind = "MapType"
    /\ Key(LitType(lit)).kind = "Ident"
    /\ Key(LitType(lit)).text = string_

HasStringLitKey(e) == e.kind = "KeyValueExpr" /\ IsStringLit(Key(e))

\* C8: for a map[string]V table the cases are exactly the entries whose key
\* is a string literal, in the order of the entries, each named by its key
\* without the quotes and ranging over the entry; an entry with another key
\* is skipped and the entries after it are still produced.
C8_MapEntriesWithStringLitKeys ==
    (Returned /\ IsStringKeyedMap(compLit)) =>
        LET lit == Place(compLit, 0)
            fset == NewFileSet(lit)
            entries == SelectSeq(Elts(lit), HasStringLitKey)
        IN /\ Len(testCases) = Len(entries)
           /\ \A i \in 1..Len(entries) :
                 /\ testCases[i].name = Interior(Key(entries[i]).text)
                 /\ testCases[i].range = RangeOf(entries[i], fset)

\* a map table with an identifier key between two string-literal keys, both
\* of which are produced
C8_Witness ==
    /\ Returned
    /\ IsStringKeyedMap(compLit)
    /\ Len(Elts(compLit)) = 3
    /\ HasStringLitKey(Elts(compLit)[1])
    /\ Key(Elts(compLit)[2]).kind = "Ident"
    /\ HasStringLitKey(Elts(compLit)[3])
    /\ Len(testCases) = 2
    /\ testCases[2].name = <<"r">>

\* C9: for a table that is not a map the cases are exactly the elements that
\* are composite literals for which extractTestName yields a non-empty name,
\* in element order, each named by that name and ranging over the element;
\* other elements (identifiers, &T{...}, struct literals without a
\* recognized name field) are skipped without effect on the rest.
C9_SliceElementsWithNames ==
    (Returned /\ LitType(compLit).kind # "MapType") =>
        LET lit == Place(compLit, 0)
            fset == NewFileSet(lit)
            fields == extractStructFields(LitType(lit))
            IsNamed(e) == e.kind = "CompositeLit" /\ extractTestName(e, fields) # <<>>
            named == SelectSeq(Elts(lit), IsNamed)
        IN /\ Len(testCases) = Len(named)
           /\ \A i \in 1..Len(named) :
                 /\ testCases[i].name = extractTestName(named[i], fields)
                 /\ testCases[i].range = RangeOf(named[i], fset)

\* an alias-typed table whose elements are &T{...}, a struct literal without
\* a name field and a named struct literal: only the last one is a case
C9_Witness ==
    /\ Returned
    /\ LitType(compLit) = Ident(T_)
    /\ Len(Elts(compLit)) = 3
    /\ Elts(compLit)[1].kind = "UnaryExpr"
    /\ Elts(compLit)[2] = UnnamedCase
    /\ Elts(compLit)[3] = NamedCase(DESC_, <<"b">>)
    /\ Len(testCases) = 1
    /\ testCases[1].name = <<"b">>

\* the type of a table names a type declared elsewhere: T, []T, []x.T
IsOpaqueTableType(type) ==
    \/ type.kind \in {"Ident", "SelectorExpr"}
    \/ type.kind = "ArrayType" /\ type.kids[1].kind \in {"Ident", "SelectorExpr"}

\* C13: when the type of the table is a named type or alias, so that no
\* field list is visible, an element in positional form yields no test-case
\* Symbol, whatever string literals it holds.
C13_NoPositionalGuessForOpaqueTypes ==
    (Returned /\ IsOpaqueTableType(LitType(compLit))) =>
        LET lit == Place(compLit, 0)
            fset == NewFileSet(lit)
            elts == Elts(lit)
        IN \A k \in 1..Len(elts) :
              (elts[k].kind = "CompositeLit" /\ IsPositional(elts[k]))
                  => \A i \in 1..Len(testCases) :
                        testCases[i].range # RangeOf(elts[k], fset)

\* []x.T{ {"p", 1}, {name: "a"} }: only the second element is a case
C13_Witness ==
    /\ Returned
    /\ LitType(compLit) = ArrayType(SelectorExpr(Ident(x_), Ident(T_)))
    /\ Len(Elts(compLit)) = 2
    /\ Elts(compLit)[1].kind = "CompositeLit"
    /\ IsPositional(Elts(compLit)[1])
    /\ IsStringLit(Elts(Elts(compLit)[1])[1])
    /\ Elts(compLit)[2] = NamedCase(name_, <<"a">>)
    /\ Len(testCases) = 1
    /\ testCases[1].name = <<"a">>

(***************************************************************************)
(* Properties of name extraction from one struct literal (SpecName).       *)
(***************************************************************************)
\* the k-th element is a key-value pair with a recognized key
HasNameKey(elts, k) ==
    /\ elts[k].kind = "KeyValueExpr"
    /\ Key(elts[k]).kind = "Ident"
    /\ isTestNameField(Key(elts[k]).text)

\* C10: for a struct literal in key-value form extractTestName returns the
\* decoded value of the first element whose key is a recognized name field
\* and whose value is a string literal; an earlier recognized key with
\* another value is passed over and later matches do not override it.
C10_FirstKeyValueMatchWins ==
    Returned =>
        LET elts == Elts(caseLit)
            matches == {k \in 1..Len(elts) : HasNameKey(elts, k) /\ IsStringLit(Value(elts[k]))}
        IN matches # {} =>
              LET first == CHOOSE k \in matches : \A m \in matches : k <= m
              IN testName = Interior(Value(elts[first]).text)

\* {name: x, DESC: "a", name: <raw "b">}: the first pair is passed over, the
\* second supplies the name, the third does not override it
C10_Witness ==
    /\ Returned
    /\ Len(Elts(caseLit)) = 3
    /\ HasNameKey(Elts(caseLit), 1) /\ Value(Elts(caseLit)[1]).kind = "Ident"
    /\ Elts(caseLit)[2] = KeyValueExpr(Ident(DESC_), Str(<<"a">>))
    /\ Elts(caseLit)[3] = KeyValueExpr(Ident(name_), RawStr(<<"b">>))
    /\ testName = <<"a">>

(***************************************************************************)
(* Properties of the recognized field names (SpecField).                   *)
(***************************************************************************)
LowerWord(word) == [i \in 1..Len(word) |-> ToLower(word[i])]

\* the six recognized names in lower case
RecognizedLower ==
    { <<"n","a","m","e">>, <<"t","e","s","t","n","a","m","e">>, <<"d","e","s","c">>,
      <<"d","e","s","c","r","i","p","t","i","o","n">>, <<"t","i","t","l","e">>,
      <<"s","c","e","n","a","r","i","o">> }

\* []struct{name string}{ {NAME: "a"}, {Name: "b"}, {name: "c"} }
ThreeSpellings ==
    CompositeLit(ArrayType(StructOf(<<name_>>)),
                 <<NamedCase(NAME_, <<"a">>), NamedCase(Name_, <<"b">>),
                   NamedCase(name_, <<"c">>)>>, 1)

\* C11: isTestNameField(f) is true if and only if f equals, ignoring letter
\* case, one of name, testName, desc, description, title, scenario; a table
\* whose three elements spell the field NAME, Name and name has three cases.
C11_RecognizedIgnoringCase ==
    Returned =>
        /\ fieldIsName <=> (LowerWord(fieldNameIn) \in RecognizedLower)
        /\ LET lit == Place(ThreeSpellings, 0)
           IN Len(extractTestCasesFromSlice(lit, NewFileSet(lit))) = 3

\* the field is spelled tESTNAME and is recognized
C11_Witness ==
    /\ Returned
    /\ fieldNameIn = <<"t","E","S","T","N","A","M","E">>
    /\ fieldIsName

\* C12: for a positional struct literal of an inline struct type the name is
\* the string literal at the positional index of the first declared field
\* with a recognized name, the index of a field being the number of field
\* names declared before it, grouped declarations (a, b int) included.
C12_PositionalIndexCountsNames ==
    (Returned /\ IsPositional(caseLit) /\ Len(structFields) >= 1) =>
        LET names == DeclaredNames(structFields)
            recognized == {k \in 1..Len(names) : isTestNameField(names[k])}
        IN recognized # {} =>
              LET first == CHOOSE k \in recognized : \A m \in recognized : k <= m
              IN (first <= Len(Elts(caseLit)) /\ IsStringLit(Elts(caseLit)[first]))
                    => testName = Interior(Elts(caseLit)[first].text)

(***************************************************************************)
(* Properties of string-literal decoding (SpecLiteral).                    *)
(***************************************************************************)
\* C14: the extracted name is the string the literal denotes: escapes are
\* interpreted in a double-quoted literal, the text between the backquotes
\* of a raw literal is taken as it is, double quotes and newlines included;
\* no character is added, removed or altered.
C14_DecodingIsExact ==
    (Returned /\ basicLit.kind = "BasicLit") =>
        /\ unquotedOut.ok
        /\ unquotedOut.s = content

\* a raw literal whose content starts and ends with a double quote and has a
\* newline in between
C14_Witness ==
    /\ Returned
    /\ basicLit.kind = "BasicLit"
    /\ basicLit.text[1] = BQuote
    /\ content = <<DQuote, "\n", DQuote>>
    /\ unquotedOut.s = content

(***************************************************************************)
(* Properties of the serialized output (SpecMain).                         *)
(***************************************************************************)
Written == pc = "exited" /\ Len(stdout) = 1

\* C18: in the JSON output the children member of every Symbol is an array:
\* non-empty for a test function, the empty array for a test case, never
\* null.
C18_ChildrenIsAnArray ==
    Written =>
        \A i \in 1..Len(stdout[1].items) :
            LET function == stdout[1].items[i]
            IN /\ function.children.json = "array"
               /\ Len(function.children.items) >= 1
               /\ \A j \in 1..Len(function.children.items) :
                     /\ function.children.items[j].children.json = "array"
                     /\ function.children.items[j].children.items = <<>>

C20_ErrorsAllOrNothing ==
    Returned =>
        /\ err # "" <=> (filename = "" \/ src.syntaxError)
        /\ err # "" => (symbolsIsNil /\ symbols = <<>>)
        /\ err = "" => ~symbolsIsNil

\* the only table of the source has an identifier as map key: no error and
\* an empty slice that is not nil
C20_Witness ==
    /\ Returned
    /\ src.file = File(<<FuncDecl(TestA, FALSE, TRUE, <<Define(IdentKeyMapTable)>>)>>)
    /\ err = ""
    /\ ~symbolsIsNil
    /\ symbols = <<>>

(***************************************************************************)
(* Properties of ParseFile (SpecFile).                                     *)
(***************************************************************************)
OpenFails == disk.state \in {"missing", "unreadable"}

\* C21: ParseFile checks the path before it reads: an empty path, then a
\* path that does not end in ".go", then a file that cannot be opened each
\* give an error and a nil slice of Symbols; the checks run in this order,
\* os.Open is not called when one of the first two fails, and the failure
\* to open is reported by an error of its own, never as the parse failure.
C21_ValidatesBeforeItReads ==
    Returned =>
        /\ filePath = <<>>
            => (err = "file path cannot be empty" /\ opened = <<>>)
        /\ (filePath # <<>> /\ ~HasSuffix(filePath, dotGo))
            => (err = "file must have .go extension" /\ opened = <<>>)
        /\ (filePath # <<>> /\ HasSuffix(filePath, dotGo) /\ OpenFails)
            => (err = "failed to open file" /\ opened = <<filePath>>)
        /\ (filePath = <<>> \/ ~HasSuffix(filePath, dotGo) \/ OpenFails)
            => (symbolsIsNil /\ symbols = <<>>)
        /\ err = "failed to parse Go file"
            => (~OpenFails /\ opened = <<filePath>>)

\* a path without extension to a file that does not exist: the extension
\* is what ParseFile reports, and nothing was opened
C21_Witness ==
    /\ Returned
    /\ filePath = <<"a">>
    /\ disk.state = "missing"
    /\ err = "file must have .go extension"
    /\ opened = <<>>
    /\ symbolsIsNil

(***************************************************************************)
(* Properties of the command (SpecCommand).                                *)
(***************************************************************************)
Exited == pc = "exited"

ReadsStdin == osArgs # <<>> /\ osArgs[1] = dash

\* the source the arguments select
Selected == IF ReadsStdin THEN [state |-> "file", src |-> stdin] ELSE disk

\* the selected source can be read and parses
Parses ==
    /\ osArgs # <<>>
    /\ ReadsStdin \/ HasSuffix(osArgs[1], dotGo)
    /\ Selected.state = "file"
    /\ ~Selected.src.syntaxError

\* C22: a run of the command ends with status 0 and exactly one JSON array
\* on standard output, the function Symbols of the selected source ([] when
\* it has none), or with a status that is not 0, a diagnostic on standard
\* error and nothing on standard output; "-" selects standard input, any
\* other argument is a path for ParseFile.
C22_CommandLineContract ==
    Exited =>
        /\ exitCode = 0 <=> Parses
        /\ exitCode = 0 =>
            /\ stderr = <<>>
            /\ Len(stdout) = 1
            /\ stdout[1].json = "array"
            /\ stdout[1] = jsonMarshal(parseOpened(Selected).symbols, FALSE)
        /\ exitCode # 0 =>
            /\ exitCode > 0
            /\ stdout = <<>>
            /\ Len(stderr) = 1
        /\ ReadsStdin => opened = <<>>
        /\ (osArgs # <<>> /\ ~ReadsStdin /\ HasSuffix(osArgs[1], dotGo))
            => opened = <<osArgs[1]>>

\* a run on "-" with a test function on standard input, while the disk
\* holds nothing: one array with one function Symbol
C22_Witness ==
    /\ Exited
    /\ osArgs = <<dash>>
    /\ stdin = StdinSource
    /\ disk.state = "missing"
    /\ exitCode = 0
    /\ Len(stdout) = 1
    /\ Len(stdout[1].items) = 1

(***************************************************************************)
(* Names of the cases of a table (SpecTable).                              *)
(***************************************************************************)
\* C28: every test-case Symbol has a name that is not empty: an element
\* whose name field is "" and a map entry whose key is "" give no Symbol.
C28_NamesAreNotEmpty ==
    Returned => \A i \in 1..Len(testCases) : testCases[i].name # <<>>

(***************************************************************************)
(* Repetition among the cases of a function (SpecBody).                    *)
(***************************************************************************)
\* C30: no test case is reported twice: no two children of a function
\* Symbol have the same range, whichever of the :=, var and for ... range
\* forms bind the tables of the body and however the statements nest.
C30_NoCaseTwice ==
    ParsedOk =>
        \A f \in 1..Len(symbols) :
            \A i, j \in 1..Len(symbols[f].children) :
                i # j => symbols[f].children[i].range # symbols[f].children[j].range

\* a var declaration of a table inside a for ... range statement, after a
\* := of the slice table: the cases of both tables, each once
C30_Witness ==
    /\ ParsedOk
    /\ FuncBody(src.file.kids[1]).kids = <<Define(SliceTable), InLoop(VarDecl(MapTable))>>
    /\ Len(symbols) = 1
    /\ Len(symbols[1].children) = Len(Elts(SliceTable)) + Len(Elts(MapTable))

(***************************************************************************)
(* Properties of the provider with one request (SpecProvider).             *)
(***************************************************************************)
\* the whole output of the parser of request c has been read
ReadWhole(c) == buffers[c] = Output(c, document[c].parser)

\* C23: called with a token that is already cancelled,
\* provideDocumentSymbols returns [] and starts no process; a cancellation
\* while the process runs kills it, leaves no timer armed and makes the call
\* resolve to []; symbols are returned only for an output read as a whole
\* from a process that closed with code 0.
C23_CancellationYieldsEmpty ==
    /\ [](\A c \in DOMAIN document :
            /\ child[c].killedBy = "token"
                => (call[c] = "done" /\ answer[c] = Resolved(<<>>))
            /\ (answer[c].state = "resolved" /\ answer[c].value # <<>>)
                => (ReadWhole(c) /\ promise[c] = Resolved(buffers[c])))
    /\ [][\A c \in DOMAIN document :
            /\ (call[c] = "idle" /\ token[c] /\ call'[c] # "idle")
                => (answer'[c] = Resolved(<<>>) /\ child'[c].state = "none")
            /\ (~token[c] /\ token'[c] /\ child[c].state = "running")
                => /\ child'[c].killedBy # "none"
                   /\ timer'[c].state # "armed"
                   /\ call'[c] = "done"
                   /\ answer'[c] = Resolved(<<>>)]_vars

\* the token was cancelled after the first of the chunks had been read; the
\* killed process has closed, and the call has resolved to []
C23_Witness ==
    /\ token[1]
    /\ child[1].killedBy = "token"
    /\ child[1].state = "closed"
    /\ Len(buffers[1]) = 1
    /\ document[1].parser = "symbols"
    /\ answer[1] = Resolved(<<>>)

(***************************************************************************)
(* Properties of the provider with one request and a timer that fires      *)
(* (SpecProviderFair).                                                     *)
(***************************************************************************)
\* C24: the timer of runParser runs for the configured timeout, 10000 ms
\* when the user has set none; when it fires, the process has not closed
\* and no cancellation came first, the process is killed, runParser rejects
\* and provideDocumentSymbols resolves to []; the timer does not fire once
\* the process has closed; a call that waits for the parser is answered.
C24_TimeoutIsEnforced ==
    /\ [](\A c \in DOMAIN document :
            /\ timer[c].state # "unset" => timer[c].delay = config.timeout
            /\ config.timeout = IF settings.timeout = <<>> THEN 10000
                                ELSE settings.timeout[1])
    /\ [][\A c \in DOMAIN document :
            /\ (timer[c].state = "armed" /\ timer'[c].state = "fired")
                => /\ ~token[c]
                   /\ child[c].state # "closed"
                   /\ child[c].state = "running" => child'[c].killedBy = "timer"
                   /\ promise'[c] = Rejected("timeout")
                   /\ call'[c] = "done"
                   /\ answer'[c] = Resolved(<<>>)
            /\ (child[c].state = "closed" /\ timer[c].state # "fired")
                => timer'[c].state # "fired"]_vars
    /\ \A c \in {1} :
          (call[c] = "awaiting") ~> (call[c] = "done" /\ answer[c].state = "resolved")

\* no timeout is set; the timer fired after 10000 ms while the process ran
\* after its first chunk: the process is killed and the answer is []
C24_Witness ==
    /\ settings.timeout = <<>>
    /\ timer[1] = [state |-> "fired", delay |-> 10000]
    /\ child[1].killedBy = "timer"
    /\ child[1].delivered = 1
    /\ promise[1] = Rejected("timeout")
    /\ answer[1] = Resolved(<<>>)

\* C29: runParser is settled by the first of close, error, timeout and
\* cancellation that is handled: close with code 0 gives the output, close
\* with another code, error and the timeout give a rejection, cancellation
\* gives null; a settled promise and a given answer never change, so a close
\* after a kill does not bring the output back; and the timer fires only
\* when none of close, error and cancellation was handled before.
C29_FirstEventSettles ==
    [][\A c \in DOMAIN document :
        /\ promise[c].state \in {"resolved", "rejected"}
            => (promise'[c] = promise[c] /\ answer'[c] = answer[c])
        /\ promise[c].state = "pending" =>
            /\ (child'[c].state = "closed" /\ child'[c].code = "0")
                => promise'[c] = Resolved(buffers[c])
            /\ (child'[c].state = "closed" /\ child'[c].code # "0")
                => promise'[c] = Rejected("exit")
            /\ (child[c].state = "failing" /\ child'[c].state = "errored")
                => promise'[c] = Rejected("error")
            /\ (timer[c].state = "armed" /\ timer'[c].state = "fired")
                => promise'[c] = Rejected("timeout")
            /\ (~token[c] /\ token'[c])
                => promise'[c] = ResolvedNull
        /\ (timer[c].state = "armed" /\ timer'[c].state = "fired")
            => (~token[c] /\ child[c].state \in {"running", "failing"})
        /\ (token[c] \/ child[c].state \in {"closed", "errored"})
            => timer[c].state # "armed"
      ]_vars

\* the timer fired and killed the process, which had written all its output
\* and then closed with code 0: the promise stays rejected, the answer []
C29_Witness ==
    /\ timer[1].state = "fired"
    /\ child[1].state = "closed"
    /\ child[1].code = "0"
    /\ document[1].parser = "symbols"
    /\ ReadWhole(1)
    /\ promise[1] = Rejected("timeout")
    /\ answer[1] = Resolved(<<>>)

(***************************************************************************)
(* Properties of two overlapping requests (SpecConcurrent).                *)
(***************************************************************************)
\* what request c answers for the way its own promise was settled
AnswerAlone(c) ==
    IF promise[c].state = "resolved" /\ promise[c].what = "value"
    THEN IF document[c].parser = "symbols" THEN <<[document |-> c]>> ELSE <<>>
    ELSE <<>>

\* C26: two overlapping calls are independent: the stdout variable of a
\* call holds chunks of its own process only, in the order written; the
\* answer of a call is the one that its own document and the events of its
\* own process, timer and token give; and a step of one call leaves the
\* process, timer, promise, buffer and answer of the other as they are.
C26_InvocationsAreIndependent ==
    /\ [](\A c \in DOMAIN document :
            /\ Len(buffers[c]) = child[c].delivered
            /\ buffers[c] = SubSeq(Output(c, document[c].parser), 1, Len(buffers[c]))
            /\ call[c] = "done" => answer[c] = Resolved(AnswerAlone(c))
            /\ (promise[c].state = "resolved" /\ promise[c].what = "value")
                => promise[c].value = Output(c, document[c].parser))
    /\ [][\A c, d \in DOMAIN document :
            (c # d /\ <<call[c], child[c], timer[c], promise[c], buffers[c], token[c]>>
                        # <<call'[c], child'[c], timer'[c], promise'[c], buffers'[c], token'[c]>>)
                => <<call'[d], child'[d], timer'[d], promise'[d], buffers'[d],
                     token'[d], answer'[d]>>
                    = <<call[d], child[d], timer[d], promise[d], buffers[d],
                        token[d], answer[d]>>]_vars

\* both calls wait for their processes at the same time, and each has read
\* the first chunk of its own process
C26_Witness ==
    /\ DOMAIN document = {1, 2}
    /\ call[1] = "awaiting"
    /\ call[2] = "awaiting"
    /\ buffers[1] = <<[of |-> 1, json |-> "symbols", piece |-> 1]>>
    /\ buffers[2] = <<[of |-> 2, json |-> "symbols", piece |-> 1]>>

(***************************************************************************)
(* The limits of the provider (SpecProvider).                              *)
(***************************************************************************)
\* C25: the text written to the parser's standard input is never larger
\* than the configured maxFileSize, and for a document whose text is over
\* the limit the call starts no process and answers with no symbols,
\* whatever the size of the file on disk.
C25_MaxInputSize ==
    \A c \in DOMAIN document :
        /\ child[c].state # "none" => child[c].input <= config.maxFileSize
        /\ (call[c] = "done" /\ document[c].textSize > config.maxFileSize)
            => (child[c].state = "none" /\ answer[c].value = <<>>)

\* C27: provideDocumentSymbols always resolves, to an array, and never
\* rejects: whatever fails, the answer is [].
C27_AlwaysResolves ==
    \A c \in DOMAIN document :
        /\ answer[c].state # "rejected"
        /\ call[c] = "done" => answer[c].state = "resolved"

====
